---- MODULE Spec2Model ----
(***************************************************************************)
(* Turn orchestration of the Chief voice bot (backend/chief_bot.py):       *)
(* the utterance classifier, the gateway protocol client and the          *)
(* interceptor intercept_and_forward that gates each transcribed           *)
(* utterance, streams the gateway's reply to speech and schedules the      *)
(* acknowledgment and filler phrases.                                      *)
(*                                                                         *)
(* Text is a sequence of one-character strings.  Time is counted in ticks  *)
(* of 1/CHARS_PER_SECOND second, so that len(full_response) / 15 seconds   *)
(* is exactly len(full_response) ticks.                                    *)
(***************************************************************************)
EXTENDS Integers, Sequences, FiniteSets, TLC

(***************************************************************************)
(* Module-level data of the source.                                        *)
(***************************************************************************)
FAREWELL_PATTERNS ==
    { <<"b","y","e">>,
      <<"c","a","t","c","h"," ","y","o","u"," ","l","a","t","e","r">>,
      <<"d","i","s","c","o","n","n","e","c","t">>,
      <<"e","n","d"," ","c","a","l","l">>,
      <<"g","o","o","d"," ","n","i","g","h","t">>,
      <<"g","o","o","d","b","y","e">>,
      <<"g","o","t","t","a"," ","g","o">>,
      <<"h","a","n","g"," ","u","p">>,
      <<"i","'","m"," ","d","o","n","e">>,
      <<"l","a","t","e","r">>,
      <<"n","i","g","h","t">>,
      <<"s","e","e"," ","y","o","u">>,
      <<"t","a","k","e"," ","c","a","r","e">>,
      <<"t","a","l","k"," ","t","o"," ","y","o","u"," ","l","a","t","e","r">>,
      <<"t","h","a","n","k"," ","y","o","u"," ","b","y","e">>,
      <<"t","h","a","n","k","s"," ","b","y","e">>,
      <<"t","h","a","t","'","s"," ","a","l","l">> }

farewell_keywords ==
    { <<"b","y","e">>,
      <<"d","i","s","c","o","n","n","e","c","t">>,
      <<"e","n","d"," ","c","a","l","l">>,
      <<"g","o","o","d","b","y","e">>,
      <<"g","o","o","d","n","i","g","h","t">>,
      <<"h","a","n","g"," ","u","p">>,
      <<"l","a","t","e","r">> }

SIMPLE_CHAT_PATTERNS ==
    { <<"a","l","r","i","g","h","t">>,
      <<"a","p","p","r","e","c","i","a","t","e"," ","i","t">>,
      <<"a","w","e","s","o","m","e">>,
      <<"b","y","e">>,
      <<"c","o","o","l">>,
      <<"c","o","r","r","e","c","t">>,
      <<"f","i","n","e">>,
      <<"g","o","o","d"," ","a","f","t","e","r","n","o","o","n">>,
      <<"g","o","o","d"," ","e","v","e","n","i","n","g">>,
      <<"g","o","o","d"," ","m","o","r","n","i","n","g">>,
      <<"g","o","o","d"," ","n","i","g","h","t">>,
      <<"g","o","o","d","b","y","e">>,
      <<"g","o","t"," ","i","t">>,
      <<"g","r","e","a","t">>,
      <<"h","e","l","l","o">>,
      <<"h","e","y">>,
      <<"h","i">>,
      <<"h","i","y","a">>,
      <<"h","o","w","d","y">>,
      <<"l","a","t","e","r">>,
      <<"n","i","c","e">>,
      <<"n","i","g","h","t">>,
      <<"n","o">>,
      <<"n","o","p","e">>,
      <<"o","k">>,
      <<"o","k","a","y">>,
      <<"p","e","r","f","e","c","t">>,
      <<"r","i","g","h","t">>,
      <<"s","e","e"," ","y","o","u">>,
      <<"s","o","u","n","d","s"," ","g","o","o","d">>,
      <<"s","u","r","e">>,
      <<"t","a","k","e"," ","c","a","r","e">>,
      <<"t","h","a","n","k"," ","y","o","u">>,
      <<"t","h","a","n","k","s">>,
      <<"t","h","x">>,
      <<"u","n","d","e","r","s","t","o","o","d">>,
      <<"y","e","a","h">>,
      <<"y","e","p">>,
      <<"y","e","s">>,
      <<"y","o">>,
      <<"y","u","p">> }

question_words ==
    { <<"c","h","e","c","k">>,
      <<"f","i","n","d">>,
      <<"g","e","t">>,
      <<"h","o","w">>,
      <<"s","h","o","w">>,
      <<"t","e","l","l">>,
      <<"w","h","a","t">>,
      <<"w","h","e","n">>,
      <<"w","h","e","r","e">>,
      <<"w","h","i","c","h">>,
      <<"w","h","o">>,
      <<"w","h","y">> }

filler_words ==
    { <<"a">>,
      <<"a","n">>,
      <<"a","n","d">>,
      <<"a","r","e">>,
      <<"i">>,
      <<"i","s">>,
      <<"i","t">>,
      <<"o","r">>,
      <<"t","h","e">>,
      <<"t","o">>,
      <<"w","a","s">>,
      <<"w","e","r","e">>,
      <<"y","o","u">> }

IMMEDIATE_PHRASES ==
    << "Let me check on that.",
       "Looking into that now.",
       "On it.",
       "Let me see.",
       "Checking now." >>

FILLER_PHRASES ==
    << "Still working on that...",
       "One moment...",
       "Just a sec...",
       "Give me a moment...",
       "Hang on...",
       "Almost there...",
       "Still on it..." >>

\* Transcribed utterances and a delta of the gateway, as inputs.
UttGoodbye == <<"G","o","o","d","b","y","e",".">>
UttHaveCall == <<"h","a","v","e"," ","a"," ","c","a","l","l">>
UttThanks == <<"t","h","a","n","k","s">>
UttYouHaveMail == <<"y","o","u"," ","h","a","v","e"," ","m","a","i","l"," ","t","o","d","a","y">>
DeltaYouHave == <<"Y","o","u"," ","h","a","v","e">>

(***************************************************************************)
(* String operations of Python used by the classifier.                     *)
(***************************************************************************)
UpperChars == <<"A","B","C","D","E","F","G","H","I","J","K","L","M",
                "N","O","P","Q","R","S","T","U","V","W","X","Y","Z">>

LowerChars == <<"a","b","c","d","e","f","g","h","i","j","k","l","m",
                "n","o","p","q","r","s","t","u","v","w","x","y","z">>

\* str.lower() on one character.
LowerChar(c) ==
    IF \E i \in 1..26 : UpperChars[i] = c
    THEN LowerChars[CHOOSE i \in 1..26 : UpperChars[i] = c]
    ELSE c

\* str.lower()
Lower(s) == [i \in 1..Len(s) |-> LowerChar(s[i])]

\* The characters str.strip() and str.split() treat as whitespace.
Whitespace == {" ", "\n", "\t", "\r", "\f"}

\* The argument of rstrip("!?.,:;").
TrailingPunct == {"!", "?", ".", ",", ":", ";"}

\* str.lstrip(chars)
LStripSet(s, cs) ==
    IF \A i \in 1..Len(s) : s[i] \in cs
    THEN <<>>
    ELSE SubSeq(s, CHOOSE i \in 1..Len(s) :
                      /\ s[i] \notin cs
                      /\ \A j \in 1..(i-1) : s[j] \in cs, Len(s))

\* str.rstrip(chars)
RStripSet(s, cs) ==
    IF \A i \in 1..Len(s) : s[i] \in cs
    THEN <<>>
    ELSE SubSeq(s, 1, CHOOSE i \in 1..Len(s) :
                         /\ s[i] \notin cs
                         /\ \A j \in (i+1)..Len(s) : s[j] \in cs)

\* str.strip()
Strip(s) == RStripSet(LStripSet(s, Whitespace), Whitespace)

\* str.startswith(p)
StartsWith(s, p) == Len(p) <= Len(s) /\ SubSeq(s, 1, Len(p)) = p

\* str.endswith(p)
EndsWith(s, p) == Len(p) <= Len(s) /\ SubSeq(s, Len(s) - Len(p) + 1, Len(s)) = p

\* sub in s
Contains(s, sub) ==
    \E i \in 1..(Len(s) - Len(sub) + 1) : SubSeq(s, i, i + Len(sub) - 1) = sub

\* Positions at which a word of s.split() starts.
WordStarts(s) ==
    {i \in 1..Len(s) : s[i] \notin Whitespace /\ (i = 1 \/ s[i-1] \in Whitespace)}

\* The word of s.split() starting at position i.
WordAt(s, i) ==
    SubSeq(s, i, CHOOSE j \in i..Len(s) :
                    /\ \A k \in i..j : s[k] \notin Whitespace
                    /\ (j = Len(s) \/ s[j+1] \in Whitespace))

\* s.split(), in order.
Split(s) ==
    LET starts == WordStarts(s)
        nth(n) == CHOOSE i \in starts : Cardinality({j \in starts : j < i}) = n - 1
    IN  [n \in 1..Cardinality(starts) |-> WordAt(s, nth(n))]

\* set(s.split())
WordSet(s) == {WordAt(s, i) : i \in WordStarts(s)}

\* message.lower().strip().rstrip("!?.,:;")
Normalize(message) == RStripSet(Strip(Lower(message)), TrailingPunct)

(***************************************************************************)
(* Utterance classifier.                                                   *)
(***************************************************************************)
is_farewell(message) ==
    LET msg == Normalize(message)
    IN  \/ msg \in FAREWELL_PATTERNS
        \/ \E pattern \in FAREWELL_PATTERNS :
               StartsWith(msg, pattern) \/ EndsWith(msg, pattern)
        \/ WordSet(msg) \cap farewell_keywords # {}

is_simple_chat(message) ==
    LET msg == Normalize(message)
        words == Split(msg)
        asks == \/ Contains(msg, <<" ","c","a","n"," ">>)
                \/ Contains(msg, <<" ","c","o","u","l","d"," ">>)
                \/ Contains(msg, <<" ","w","o","u","l","d"," ">>)
                \/ Contains(message, <<"?">>)
    IN  IF msg \in SIMPLE_CHAT_PATTERNS THEN TRUE
        ELSE IF \E pattern \in SIMPLE_CHAT_PATTERNS :
                    \/ StartsWith(msg, pattern \o <<" ">>)
                    \/ StartsWith(msg, pattern \o <<",">>)
             THEN ~asks
        ELSE IF Len(words) <= 2
             THEN /\ \A i \in 1..Len(words) : words[i] \notin question_words
                  /\ ~Contains(message, <<"?">>)
        ELSE FALSE

\* The threshold of is_echo is given in tenths: overlap_ratio >= threshold
\* is 10 * len(meaningful_common) >= tenths * len(meaningful_user).
is_echo(user_message, responses, tenths) ==
    LET user_words == WordSet(Lower(user_message))
    IN  IF responses = <<>> THEN FALSE
        ELSE IF Cardinality(user_words) < 2 THEN FALSE
        ELSE \E k \in 1..Len(responses) :
                LET bot_words == WordSet(Lower(responses[k]))
                    common_words == user_words \cap bot_words
                    meaningful_common == common_words \ filler_words
                    meaningful_user == user_words \ filler_words
                IN  /\ bot_words # {}
                    /\ Cardinality(meaningful_user) > 0
                    /\ 10 * Cardinality(meaningful_common)
                           >= tenths * Cardinality(meaningful_user)

(***************************************************************************)
(* Streaming sentence chunker: the body of the `async for chunk` loop.     *)
(***************************************************************************)
\* Sentence-ending characters.
Terminals == {".", "!", "?", "\n"}

\* The characters swallowed after a sentence end.
AfterTerminal == {" ", "\n"}

\* Buffer length above which a run-on sentence is cut.
LONG_BUFFER == 150

\* A cut of a run-on sentence must lie beyond this offset.
MIN_BREAK == 50

\* Number of characters of text_buffer sent when it holds a sentence end
\* (0 when it holds none): up to the first terminal and the spaces and
\* newlines that follow it.
SentenceCut(text_buffer) ==
    IF \A i \in 1..Len(text_buffer) : text_buffer[i] \notin Terminals
    THEN 0
    ELSE LET i == CHOOSE k \in 1..Len(text_buffer) :
                      /\ text_buffer[k] \in Terminals
                      /\ \A j \in 1..(k-1) : text_buffer[j] \notin Terminals
         IN  CHOOSE e \in i..Len(text_buffer) :
                 /\ \A j \in (i+1)..e : text_buffer[j] \in AfterTerminal
                 /\ (e = Len(text_buffer) \/ text_buffer[e+1] \notin AfterTerminal)

\* text_buffer.rfind(' ', 0, 150), as a 0-based offset, -1 when absent.
BreakPoint(text_buffer) ==
    LET upto == IF Len(text_buffer) < LONG_BUFFER THEN Len(text_buffer) ELSE LONG_BUFFER
        spaces == {i \in 1..upto : text_buffer[i] = " "}
    IN  IF spaces = {} THEN -1
        ELSE (CHOOSE i \in spaces : \A j \in spaces : j <= i) - 1

\* Variant: a cut of a run-on sentence however short the chunk.
LongCutAnywhere(text_buffer) ==
    IF Len(text_buffer) > LONG_BUFFER /\ BreakPoint(text_buffer) >= 0
    THEN BreakPoint(text_buffer) + 1
    ELSE 0

\* Number of characters of text_buffer sent by the run-on rule (0: none).
LongCut(text_buffer) ==
    IF Len(text_buffer) > LONG_BUFFER /\ BreakPoint(text_buffer) > MIN_BREAK
    THEN BreakPoint(text_buffer) + 1
    ELSE 0

\* Variant: nothing is swallowed after a sentence end.
ChunkStepBare(text_buffer) ==
    LET marks == {k \in 1..Len(text_buffer) : text_buffer[k] \in Terminals}
        n == IF marks = {} THEN 0
             ELSE CHOOSE k \in marks : \A j \in marks : k <= j
    IN  [should_send |-> n > 0,
         send_text   |-> SubSeq(text_buffer, 1, n),
         text_buffer |-> SubSeq(text_buffer, n + 1, Len(text_buffer))]

\* One pass of the loop body over the buffer (the chunk already appended):
\* should_send, send_text and the text_buffer left.
ChunkStep(text_buffer) ==
    LET n == IF SentenceCut(text_buffer) > 0
             THEN SentenceCut(text_buffer)
             ELSE LongCut(text_buffer)
    IN  [should_send |-> n > 0,
         send_text   |-> SubSeq(text_buffer, 1, n),
         text_buffer |-> SubSeq(text_buffer, n + 1, Len(text_buffer))]

\* Variant: every cut is spoken.
SpeaksAlways(step) == step.should_send

\* `if should_send and send_text.strip()`: the chunk is spoken.
Speaks(step) == step.should_send /\ Strip(step.send_text) # <<>>

(***************************************************************************)
(* Constants of the source.                                                *)
(***************************************************************************)
\* len(full_response) / 15: characters spoken per second; one tick of the
\* clock is 1/15 second.
CHARS_PER_SECOND == 15

\* asyncio.sleep(3) of send_acknowledgment_after_delay, in seconds.
ACK_DELAY == 3

\* asyncio.sleep(4) of send_filler_after_delay, in seconds.
FILLER_DELAY == 4

\* asyncio.sleep(3.0) before EndFrame, in seconds.
FAREWELL_WAIT == 3

\* time_since_bot < 1.0, in seconds.
COOLDOWN == 1

\* is_echo(..., threshold=0.3) while the bot speaks, in tenths.
ECHO_SPEAKING_TENTHS == 3

\* is_echo(..., threshold=0.4), in tenths.
ECHO_TENTHS == 4

\* len(recent_bot_responses) > 3
MAX_RECENT_RESPONSES == 3

\* len(recent_immediate) > 3
MAX_RECENT_IMMEDIATE == 3

\* len(recent_fillers) > 4
MAX_RECENT_FILLERS == 4

\* asyncio.wait_for(self.ws.recv(), timeout=120) of stream_message, in seconds.
READ_TIMEOUT == 120

\* n seconds in ticks.
Seconds(n) == n * CHARS_PER_SECOND

(***************************************************************************)
(* Bounds of the model.                                                    *)
(***************************************************************************)
\* Invocations of intercept_and_forward that can be past the gate at one time.
MaxTurns == 3

\* Utterances admitted over a call in Spec: request_counter has no bound of
\* its own.
MaxRequests == 2

\* The same in SpecChat.
MaxChatRequests == 3

\* The same in SpecCall.
MaxCallRequests == 1

\* The clock stops after this many seconds.
MaxSeconds == 6

\* random.choice picks one of the first MaxPick available phrases.
MaxPick == 1

\* The same in SpecTransport.
MaxTransportRequests == 2

\* Sockets that can be open at one time.
MaxTransports == 2

\* Words, spaces and punctuation marks a classified text is made of.
MaxTokens == 3

\* Streams that complete while the recording of responses is followed.
MaxCompletions == 5

\* Phrases spoken while the two rotations are followed.
MaxSpoken == 5

\* Fragments fed to the chunking loop that is followed on its own.
MaxFragments == 2

\* Their length, the example reply apart.
MaxFragmentLen == 3

\* Frames of the kinds stream_message looks at that one call reads.
MaxFrames == 4

Turns == 1..MaxTurns

\* The task created by on_first_participant_joined for send_message(context_msg).
PrimeCaller == MaxTurns + 1

\* on_participant_left, which awaits send_message(memory_prompt).
SaveCaller == MaxTurns + 2

\* Everything that calls stream_message or connect.
Callers == Turns \cup {PrimeCaller, SaveCaller}

\* Transcribed user utterances.
Utterances == {UttGoodbye, UttHaveCall, UttYouHaveMail}

\* Small talk only: no utterance of these starts the timers.
ChatUtterances == {UttGoodbye, UttThanks}

\* The deltas of the gateway's reply to a request, in order; the gateway may
\* end the run after any of them.
Script == <<DeltaYouHave>>

\* time.time() when the bot starts: past the epoch by more than the cooldown.
StartTime == Seconds(COOLDOWN + 1)

VARIABLES
    now,                     \* time.time() and the event loop's clock, in ticks
    \* closure variables of main() shared by all invocations of the interceptor
    recent_immediate, recent_fillers, recent_bot_responses,
    last_bot_speech_end, bot_is_speaking, last_processed_message,
    processing_in_progress,
    \* ChiefVoiceGatewayClient
    ws, connected, request_counter,
    \* sockets opened by websockets.connect and not closed since
    transports,
    \* per caller: position in connect()/stream_message(), run_id is known
    gw_pc, run_id,
    \* per invocation of intercept_and_forward past the gate: its position
    \* and its local variables
    turn,
    \* one call of stream_message seen frame by frame: the loop of lines
    \* 299-357 with its local run_id, what it has yielded, the frames read
    \* and the seconds the pending recv has waited
    reader,
    \* one run of the chunking loop of lines 726-775 seen chunk by chunk:
    \* text_buffer, full_response and the texts of the frames it queued
    chunker,
    \* one call of the utterance classifier: the text and its verdict
    heard,
    \* the recording of responses on its own: the list kept and every
    \* completion so far
    recorder,
    \* the two phrase rotations on their own: the lists kept and every
    \* phrase spoken so far
    rotation,
    \* on_first_participant_joined and on_participant_left
    join_pc, save_pc,
    \* what the last step did that its environment sees: the gate's decision
    \* on an utterance, the frame handed to task.queue_frame, the call of
    \* original_push
    last

closureVars == <<recent_immediate, recent_fillers, recent_bot_responses,
                 last_bot_speech_end, bot_is_speaking, last_processed_message,
                 processing_in_progress>>

clientVars == <<ws, connected, request_counter, transports>>

callVars == <<gw_pc, run_id>>

sessionVars == <<join_pc, save_pc>>

\* The two loops that are followed on their own.
unitVars == <<reader, chunker, heard, recorder, rotation>>

vars == <<now, closureVars, clientVars, callVars, turn, sessionVars, last,
          unitVars>>

\* An invocation that has not passed the gate, or has ended.
IdleTurn ==
    [pc |-> "idle", user_message |-> <<>>, simple_chat |-> FALSE,
     first_chunk_received |-> FALSE, acknowledgment_sent |-> FALSE,
     ack_task |-> "None", filler_task |-> "None", timers_started |-> 0,
     full_response |-> <<>>, text_buffer |-> <<>>, chunks_sent |-> 0,
     stream_calls |-> 0, handled |-> FALSE, stream_complete_time |-> 0,
     sleep_until |-> 0]

\* stream_message after `run_id = None` (line 297): nothing read yet.
NewReader ==
    [pc |-> "reading", error |-> "None", run_id |-> "None", yielded |-> <<>>,
     received |-> <<>>, waited |-> 0]

\* The chunking loop before the first chunk: `text_buffer = ""`,
\* `full_response = ""`, `chunks_sent = 0` (lines 717-721).
NewChunker ==
    [pc |-> "stream", text_buffer |-> <<>>, full_response |-> <<>>,
     chunks |-> <<>>, fragments |-> 0]

\* The classifier before its first call.
NothingHeard == [message |-> <<>>, farewell |-> FALSE]

\* The recording before the first completion.
NewRecorder == [recent_bot_responses |-> <<>>, completed |-> <<>>]

\* The rotations before the first phrase.
NewRotation ==
    [recent_immediate |-> <<>>, recent_fillers |-> <<>>,
     acknowledgments |-> <<>>, fillers |-> <<>>]

\* A step that shows nothing.
Quiet == [gate |-> "none", frame |-> "none", turn |-> 0]

\* The gate decided on an utterance: the return statement taken, or "admitted".
Decision(result) == [gate |-> result, frame |-> "none", turn |-> 0]

\* Invocation t (0: an event handler) queued a frame of this kind, or called
\* original_push ("forward").
Frame(kind, t) == [gate |-> "none", frame |-> kind, turn |-> t]

Init ==
    /\ now = StartTime
    /\ recent_immediate = <<>>
    /\ recent_fillers = <<>>
    /\ recent_bot_responses = <<>>
    /\ last_bot_speech_end = 0
    /\ bot_is_speaking = FALSE
    /\ last_processed_message = <<>>
    /\ processing_in_progress = FALSE
    /\ ws = "None"
    /\ transports = 0
    /\ connected = FALSE
    /\ request_counter = 0
    /\ gw_pc = [c \in Callers |-> "none"]
    /\ run_id = [c \in Callers |-> FALSE]
    /\ turn = [t \in Turns |-> IdleTurn]
    /\ join_pc = "idle"
    /\ save_pc = "idle"
    /\ last = Quiet
    /\ reader = NewReader
    /\ chunker = NewChunker
    /\ heard = NothingHeard
    /\ recorder = NewRecorder
    /\ rotation = NewRotation

(***************************************************************************)
(* Variants of single conditions of the code.  Each drops or loosens one   *)
(* condition; the properties further down that rest on the condition fail  *)
(* when the variant takes its place.                                       *)
(***************************************************************************)
\* A gate without the comparison with last_processed_message.
GateDuplicateOff(u) == FALSE

\* Echo during speech judged at the threshold of the later echo check.
GateEchoSpeakingLoose(u) ==
    bot_is_speaking /\ is_echo(u, recent_bot_responses, ECHO_TENTHS)

\* A gate without the cooldown.
GateCooldownOff == FALSE

\* An acknowledgment guard that does not look at first_chunk_received.
AckGuardOpen(t) == ~turn[t].acknowledgment_sent

\* A finally block that cancels nothing.
NeedsCancelNever(task) == FALSE

\* Timers started for every utterance.
StartsTimersAlways(message) == TRUE

\* An empty-response check that finds every response spoken.
EmptyResponseNever(sent, response) == FALSE

\* An invocation that ends without calling original_push.
HandoverNever(t, r, r2) == Quiet

(***************************************************************************)
(* The gate of intercept_and_forward.                                      *)
(***************************************************************************)
\* user_message == last_processed_message
GateDuplicate(u) == u = last_processed_message

\* if processing_in_progress
GateBusy == processing_in_progress

\* if bot_is_speaking: if is_echo(user_message, recent_bot_responses, 0.3)
GateEchoSpeaking(u) ==
    bot_is_speaking /\ is_echo(u, recent_bot_responses, ECHO_SPEAKING_TENTHS)

\* time.time() - last_bot_speech_end < 1.0
GateCooldown == now - last_bot_speech_end < Seconds(COOLDOWN)

\* is_echo(user_message, recent_bot_responses, threshold=0.4)
GateEcho(u) == is_echo(u, recent_bot_responses, ECHO_TENTHS)

\* The return statement at which the utterance is dropped, or "admitted".
GateResult(u) ==
    IF GateDuplicate(u) THEN "duplicate"
    ELSE IF GateBusy THEN "busy"
    ELSE IF GateEchoSpeaking(u) THEN "echo_speaking"
    ELSE IF GateCooldown THEN "cooldown"
    ELSE IF GateEcho(u) THEN "echo"
    ELSE "admitted"

\* Whether the gate ran past `bot_is_speaking = False` (the barge-in branch).
PastSpeakingCheck(result) == result \in {"cooldown", "echo", "admitted"}

\* An utterance arrives while the participant is in the call and the gate
\* returns: the invocation ends there.
UtteranceDropped(u) ==
    LET result == GateResult(u)
    IN  /\ save_pc = "idle"
        /\ result # "admitted"
        /\ bot_is_speaking' =
               (IF PastSpeakingCheck(result) THEN FALSE ELSE bot_is_speaking)
        /\ last' = Decision(result)
        /\ UNCHANGED <<now, recent_immediate, recent_fillers, recent_bot_responses,
                       last_bot_speech_end, last_processed_message,
                       processing_in_progress, clientVars, callVars, turn,
                       sessionVars>>

\* Utterances admitted so far: those that called stream_message and those
\* about to.
Admitted == request_counter + Cardinality({t \in Turns : turn[t].pc = "post_user"})

\* An utterance passes the gate: invocation t runs to
\* `await post_transcript(call_id, "user", user_message)`.
UtteranceAdmitted(u, t, limit) ==
    /\ save_pc = "idle"
    /\ GateResult(u) = "admitted"
    /\ Admitted < limit
    /\ t <= limit
    /\ turn[t].pc = "idle"
    /\ \A s \in Turns : s < t => turn[s].pc # "idle"
    /\ turn' = [turn EXCEPT ![t] = [@ EXCEPT !.pc = "post_user",
                                              !.user_message = u]]
    /\ bot_is_speaking' = FALSE
    /\ processing_in_progress' = TRUE
    /\ last_processed_message' = u
    /\ last' = Decision("admitted")
    /\ UNCHANGED <<now, recent_immediate, recent_fillers, recent_bot_responses,
                   last_bot_speech_end, clientVars, callVars, sessionVars>>

(***************************************************************************)
(* Acknowledgment and filler tasks.  A task is "None" (not created),       *)
(* "sleeping" (in asyncio.sleep), "cancelling" (cancel() was called and    *)
(* CancelledError is about to be raised at its await) or "done" (ended:    *)
(* Task.done() is true).  A task starts to sleep when it is created, and   *)
(* its phrase is queued in the step that finds the guard true.             *)
(***************************************************************************)
\* list.append(phrase) followed by pop(0) when longer than cap.
Remember(recent, phrase, cap) ==
    LET r == Append(recent, phrase)
    IN  IF Len(r) > cap THEN Tail(r) ELSE r

\* Variant: every phrase is available.
AvailableAll(phrases, recent) == phrases

\* [p for p in phrases if p not in recent]
Available(phrases, recent) ==
    SelectSeq(phrases, LAMBDA p : \A i \in 1..Len(recent) : recent[i] # p)

\* random.choice(available): the k-th available phrase, counted cyclically.
Choice(available, k) == available[((k - 1) % Len(available)) + 1]

\* The recent list after one more phrase was chosen and spoken (choice k).
Rotate(phrases, recent, cap, k) ==
    LET left == Available(phrases, recent)
        available == IF left = <<>> THEN phrases ELSE left
        kept == IF left = <<>> THEN <<>> ELSE recent
    IN  Remember(kept, Choice(available, k), cap)

\* if not first_chunk_received.is_set() and not acknowledgment_sent.is_set()
AckGuard(t) == ~turn[t].first_chunk_received /\ ~turn[t].acknowledgment_sent

\* if not first_chunk_received.is_set()
FillerGuard(t) == ~turn[t].first_chunk_received

\* Variant: the acknowledgment task does not sleep.
AckWakeAtOnce(t) == turn[t].timers_started

\* When the sleep of the acknowledgment task ends.
AckWake(t) == turn[t].timers_started + Seconds(ACK_DELAY)

\* When the sleep of the filler task ends.
FillerWake(t) == turn[t].timers_started + Seconds(FILLER_DELAY)

\* send_acknowledgment_after_delay wakes up and speaks.
AckSpeak(t) ==
    /\ turn[t].ack_task = "sleeping"
    /\ now >= AckWake(t)
    /\ AckGuard(t)
    /\ \E k \in 1..MaxPick :
        recent_immediate' =
            Rotate(IMMEDIATE_PHRASES, recent_immediate, MAX_RECENT_IMMEDIATE, k)
    /\ turn' = [turn EXCEPT ![t] = [@ EXCEPT !.acknowledgment_sent = TRUE,
                                              !.ack_task = "done"]]
    /\ last' = Frame("acknowledgment", t)
    /\ UNCHANGED <<now, recent_fillers, recent_bot_responses, last_bot_speech_end,
                   bot_is_speaking, last_processed_message, processing_in_progress,
                   clientVars, callVars, sessionVars>>

\* send_acknowledgment_after_delay wakes up and finds nothing to do.
AckSkip(t) ==
    /\ turn[t].ack_task = "sleeping"
    /\ now >= AckWake(t)
    /\ ~AckGuard(t)
    /\ turn' = [turn EXCEPT ![t] = [@ EXCEPT !.ack_task = "done"]]
    /\ last' = Quiet
    /\ UNCHANGED <<now, closureVars, clientVars, callVars, sessionVars>>

\* send_filler_after_delay wakes up and speaks.
FillerSpeak(t) ==
    /\ turn[t].filler_task = "sleeping"
    /\ now >= FillerWake(t)
    /\ FillerGuard(t)
    /\ \E k \in 1..MaxPick :
        recent_fillers' =
            Rotate(FILLER_PHRASES, recent_fillers, MAX_RECENT_FILLERS, k)
    /\ turn' = [turn EXCEPT ![t] = [@ EXCEPT !.filler_task = "done"]]
    /\ last' = Frame("filler", t)
    /\ UNCHANGED <<now, recent_immediate, recent_bot_responses, last_bot_speech_end,
                   bot_is_speaking, last_processed_message, processing_in_progress,
                   clientVars, callVars, sessionVars>>

\* send_filler_after_delay wakes up and finds nothing to do.
FillerSkip(t) ==
    /\ turn[t].filler_task = "sleeping"
    /\ now >= FillerWake(t)
    /\ ~FillerGuard(t)
    /\ turn' = [turn EXCEPT ![t] = [@ EXCEPT !.filler_task = "done"]]
    /\ last' = Quiet
    /\ UNCHANGED <<now, closureVars, clientVars, callVars, sessionVars>>

(***************************************************************************)
(* The finally block of intercept_and_forward and what follows it.  These  *)
(* operators map the record of an invocation to its record after the       *)
(* code has run to its next await.                                         *)
(***************************************************************************)
\* `if ack_task and not ack_task.done()`, likewise for filler_task.
NeedsCancel(task) == task = "sleeping"

\* A task object the ended invocation no longer refers to.
Forget(task) == IF task = "done" THEN "None" ELSE task

\* The invocation is over: its locals are gone.
Ended(r) == [IdleTurn EXCEPT !.ack_task = Forget(r.ack_task),
                             !.filler_task = Forget(r.filler_task)]

\* The invocation in its finally block: of its locals only those that the
\* block and the two tasks still read are kept.
Finally(r) ==
    [IdleTurn EXCEPT !.pc = r.pc, !.handled = r.handled,
                     !.ack_task = r.ack_task, !.filler_task = r.filler_task,
                     !.first_chunk_received = r.first_chunk_received,
                     !.acknowledgment_sent = r.acknowledgment_sent,
                     !.timers_started = r.timers_started]

\* From the filler check of the finally block on: while the cancelled filler
\* task is awaited nothing reads the events or the acknowledgment task.
JoinFiller(r) ==
    IF NeedsCancel(r.filler_task)
    THEN [IdleTurn EXCEPT !.pc = "join_filler", !.handled = r.handled,
                          !.filler_task = "cancelling"]
    ELSE Ended(r)

\* From the acknowledgment check of the finally block on.
JoinTasks(r) ==
    IF NeedsCancel(r.ack_task)
    THEN [Finally(r) EXCEPT !.ack_task = "cancelling", !.pc = "join_ack"]
    ELSE JoinFiller(r)

\* What the step of invocation t that leads from r to r2 shows when it queued
\* no frame: the call of original_push, made when the invocation ends without
\* having returned at "we already handled the response".
Handover(t, r, r2) ==
    IF r2.pc = "idle" /\ ~r.handled THEN Frame("forward", t) ELSE Quiet

\* Variant: the two flags are left as they are.
FinallyFlagsKept ==
    UNCHANGED <<processing_in_progress, bot_is_speaking>>

\* The finally block resets the two flags whoever set them.
FinallyFlags ==
    /\ processing_in_progress' = FALSE
    /\ bot_is_speaking' = FALSE

\* CancelledError is raised in the acknowledgment task at its sleep and
\* `await ack_task` is over.
TurnJoinAck(t) ==
    /\ turn[t].pc = "join_ack"
    /\ turn[t].ack_task = "cancelling"
    /\ turn' = [turn EXCEPT ![t] = JoinFiller([@ EXCEPT !.ack_task = "done"])]
    /\ last' = Handover(t, turn[t], JoinFiller([turn[t] EXCEPT !.ack_task = "done"]))
    /\ UNCHANGED <<now, closureVars, clientVars, callVars, sessionVars>>

\* CancelledError is raised in the filler task at its sleep and
\* `await filler_task` is over.
TurnJoinFiller(t) ==
    /\ turn[t].pc = "join_filler"
    /\ turn[t].filler_task = "cancelling"
    /\ turn' = [turn EXCEPT ![t] = IdleTurn]
    /\ last' = Handover(t, turn[t], IdleTurn)
    /\ UNCHANGED <<now, closureVars, clientVars, callVars, sessionVars>>

(***************************************************************************)
(* What the body of `async for chunk in stream_message(...)`, its normal   *)
(* end and the except clause do to the invocation.                         *)
(***************************************************************************)
\* One delta is yielded to invocation t.
TurnChunk(t, chunk) ==
    LET r == turn[t]
        step == ChunkStep(r.text_buffer \o chunk)
    IN  /\ turn' = [turn EXCEPT ![t] =
                [r EXCEPT !.full_response = @ \o chunk,
                          !.text_buffer = step.text_buffer,
                          !.first_chunk_received = TRUE,
                          !.chunks_sent = IF Speaks(step) THEN @ + 1 ELSE @]]
        /\ bot_is_speaking' = (IF r.first_chunk_received THEN bot_is_speaking ELSE TRUE)
        /\ last' = (IF Speaks(step) THEN Frame("chunk", t) ELSE Quiet)
        /\ UNCHANGED <<recent_immediate, recent_fillers, recent_bot_responses,
                       last_bot_speech_end, last_processed_message,
                       processing_in_progress>>

\* `if chunks_sent == 0 or not full_response.strip()`
EmptyResponse(sent, response) == sent = 0 \/ Strip(response) = <<>>

\* Variant: beyond three the response just appended is dropped.
RecordedOldest(responses, response) ==
    LET all == Append(responses, response)
    IN  IF Len(all) > MAX_RECENT_RESPONSES
        THEN SubSeq(all, 1, MAX_RECENT_RESPONSES) ELSE all

\* recent_bot_responses.append(full_response) and pop(0) beyond three.
Recorded(responses, response) ==
    LET all == Append(responses, response)
    IN  IF Len(all) > MAX_RECENT_RESPONSES THEN Tail(all) ELSE all

\* The stream ends: the rest of the buffer is flushed, and either the
\* response is recorded or the invocation falls through to the local LLM
\* (then nothing was flushed: a buffer that holds text makes full_response
\* hold text and chunks_sent positive).
TurnFinal(t) ==
    LET r == turn[t]
        flush == Strip(r.text_buffer) # <<>>
        sent == IF flush THEN r.chunks_sent + 1 ELSE r.chunks_sent
        flushed == [r EXCEPT !.chunks_sent = sent]
    IN  /\ FinallyFlags
        /\ IF EmptyResponse(sent, r.full_response)
           THEN /\ turn' = [turn EXCEPT ![t] = JoinTasks(flushed)]
                /\ last' = Handover(t, flushed, JoinTasks(flushed))
                /\ UNCHANGED <<recent_bot_responses, last_bot_speech_end>>
           ELSE /\ turn' = [turn EXCEPT ![t] =
                                [flushed EXCEPT !.pc = "post_assistant",
                                                !.stream_complete_time = now]]
                /\ last' = (IF flush THEN Frame("chunk", t) ELSE Quiet)
                /\ recent_bot_responses' =
                       Recorded(recent_bot_responses, r.full_response)
                /\ last_bot_speech_end' = now + Len(r.full_response)
        /\ UNCHANGED <<recent_immediate, recent_fillers, last_processed_message>>

\* `except Exception`: the filler guard is closed and the finally block runs.
TurnExcept(t) ==
    LET r == [turn[t] EXCEPT !.first_chunk_received = TRUE]
    IN  /\ FinallyFlags
        /\ turn' = [turn EXCEPT ![t] = JoinTasks(r)]
        /\ last' = Handover(t, r, JoinTasks(r))
        /\ UNCHANGED <<recent_immediate, recent_fillers, recent_bot_responses,
                       last_bot_speech_end, last_processed_message>>

\* `await post_transcript(call_id, "assistant", full_response)` is over.
TurnPostAssistant(t) ==
    LET r == [turn[t] EXCEPT !.handled = TRUE]
    IN  /\ turn[t].pc = "post_assistant"
        /\ IF is_farewell(r.user_message)
           THEN /\ turn' = [turn EXCEPT ![t] =
                       [@ EXCEPT !.pc = "farewell_sleep",
                                 !.sleep_until = now + Seconds(FAREWELL_WAIT)]]
                /\ UNCHANGED <<processing_in_progress, bot_is_speaking>>
           ELSE /\ turn' = [turn EXCEPT ![t] = JoinTasks(r)]
                /\ FinallyFlags
        /\ last' = Quiet
        /\ UNCHANGED <<now, recent_immediate, recent_fillers, recent_bot_responses,
                       last_bot_speech_end, last_processed_message, clientVars,
                       callVars, sessionVars>>

\* Variant: EndFrame is queued without the sleep before it.
TurnFarewellEarly(t) ==
    LET r == [turn[t] EXCEPT !.handled = TRUE]
    IN  /\ turn[t].pc = "farewell_sleep"
        /\ turn' = [turn EXCEPT ![t] = JoinTasks(r)]
        /\ FinallyFlags
        /\ last' = Frame("EndFrame", t)
        /\ UNCHANGED <<now, recent_immediate, recent_fillers, recent_bot_responses,
                       last_bot_speech_end, last_processed_message, clientVars,
                       callVars, sessionVars>>

\* `await asyncio.sleep(3.0)` is over: EndFrame is queued and the invocation
\* returns.
TurnFarewell(t) ==
    LET r == [turn[t] EXCEPT !.handled = TRUE]
    IN  /\ turn[t].pc = "farewell_sleep"
        /\ now >= turn[t].sleep_until
        /\ turn' = [turn EXCEPT ![t] = JoinTasks(r)]
        /\ FinallyFlags
        /\ last' = Frame("EndFrame", t)
        /\ UNCHANGED <<now, recent_immediate, recent_fillers, recent_bot_responses,
                       last_bot_speech_end, last_processed_message, clientVars,
                       callVars, sessionVars>>

(***************************************************************************)
(* ChiefVoiceGatewayClient.  A caller is at "none" (not in the client),    *)
(* "ws_connect" (connect: awaiting websockets.connect), "challenge"        *)
(* (connect: awaiting the connect.challenge event), "auth" (connect: auth  *)
(* request sent, awaiting its response), "send" (stream_message: awaiting  *)
(* ws.send of chat.send) or "recv" (stream_message: awaiting ws.recv).     *)
(***************************************************************************)
handlerVars == <<closureVars, turn>>

\* stream_message up to its first await.
Begin(c) ==
    /\ run_id' = [run_id EXCEPT ![c] = FALSE]
    /\ IF connected
       THEN /\ request_counter' = request_counter + 1
            /\ gw_pc' = [gw_pc EXCEPT ![c] = "send"]
       ELSE /\ gw_pc' = [gw_pc EXCEPT ![c] = "ws_connect"]
            /\ UNCHANGED request_counter

\* on_participant_left reaches `finally: await gateway_client.close()`.
SaveEnds == save_pc' = (IF ws # "None" THEN "closing" ELSE "done")

\* An exception leaves connect() or stream_message() of caller c.
Raised(c) ==
    /\ gw_pc' = [gw_pc EXCEPT ![c] = "none"]
    /\ IF c \in Turns
       THEN TurnExcept(c) /\ UNCHANGED sessionVars
       ELSE /\ IF c = PrimeCaller
               THEN join_pc' = "done" /\ UNCHANGED save_pc
               ELSE SaveEnds /\ UNCHANGED join_pc
            /\ last' = Quiet
            /\ UNCHANGED handlerVars

\* stream_message of caller c returns on the chat event with state "final".
Returned(c) ==
    /\ gw_pc' = [gw_pc EXCEPT ![c] = "none"]
    /\ IF c \in Turns
       THEN TurnFinal(c) /\ UNCHANGED sessionVars
       ELSE /\ IF c = PrimeCaller
               THEN join_pc' = "done" /\ UNCHANGED save_pc
               ELSE SaveEnds /\ UNCHANGED join_pc
            /\ last' = Quiet
            /\ UNCHANGED handlerVars

\* connect() returns to caller c: to on_first_participant_joined, which
\* creates the send_message task, or to stream_message, which goes on to send.
ConnectReturned(c) ==
    /\ IF c = PrimeCaller /\ join_pc = "connecting"
       THEN /\ join_pc' = "task_created"
            /\ gw_pc' = [gw_pc EXCEPT ![c] = "none"]
            /\ UNCHANGED <<request_counter, save_pc>>
       ELSE /\ request_counter' = request_counter + 1
            /\ gw_pc' = [gw_pc EXCEPT ![c] = "send"]
            /\ UNCHANGED sessionVars
    /\ last' = Quiet
    /\ UNCHANGED handlerVars

\* The next delta of the reply: the script resumes where full_response ends.
RECURSIVE ScriptText(_)
ScriptText(n) == IF n = 0 THEN <<>> ELSE ScriptText(n - 1) \o Script[n]

NextDeltas(c) ==
    IF c \in Turns
    THEN {Script[n] : n \in {k \in 1..Len(Script) : ScriptText(k - 1) = turn[c].full_response}}
    ELSE {Script[1]}

\* `self.ws = await websockets.connect(self.gateway_url)` returns a socket:
\* the one self.ws referred to before is dropped as it is.
ConnectOpen(c) ==
    /\ gw_pc[c] = "ws_connect"
    /\ transports < MaxTransports
    /\ ws' = "open"
    /\ transports' = transports + 1
    /\ gw_pc' = [gw_pc EXCEPT ![c] = "challenge"]
    /\ last' = Quiet
    /\ UNCHANGED <<now, connected, request_counter, run_id, handlerVars, sessionVars>>

\* `message = await asyncio.wait_for(self.ws.recv(), timeout=10)` in the
\* challenge loop reads connect.challenge: the auth request is sent.
ConnectChallenge(c) ==
    /\ gw_pc[c] = "challenge"
    /\ ws = "open"
    /\ gw_pc' = [gw_pc EXCEPT ![c] = "auth"]
    /\ last' = Quiet
    /\ UNCHANGED <<now, clientVars, run_id, handlerVars, sessionVars>>

\* `response = await asyncio.wait_for(self.ws.recv(), timeout=10)` reads the
\* correlated response with ok.
ConnectAuth(c) ==
    /\ gw_pc[c] = "auth"
    /\ ws = "open"
    /\ connected' = TRUE
    /\ ConnectReturned(c)
    /\ UNCHANGED <<now, ws, transports, run_id>>

\* The same await reads a frame that is not the correlated response: connect
\* returns and leaves connected as it was.
ConnectUncorrelated(c) ==
    /\ gw_pc[c] = "auth"
    /\ ws = "open"
    /\ ConnectReturned(c)
    /\ UNCHANGED <<now, ws, connected, transports, run_id>>

\* connect() raises: websockets.connect fails (self.ws stays as it was), a
\* recv times out or fails, or the response has ok false.
ConnectFails(c) ==
    /\ gw_pc[c] \in {"ws_connect", "challenge", "auth"}
    /\ Raised(c)
    /\ UNCHANGED <<now, clientVars, run_id>>

\* `await self.ws.send(json.dumps(chat_req))`
StreamSend(c) ==
    /\ gw_pc[c] = "send"
    /\ ws = "open"
    /\ gw_pc' = [gw_pc EXCEPT ![c] = "recv"]
    /\ last' = Quiet
    /\ UNCHANGED <<now, clientVars, run_id, handlerVars, sessionVars>>

\* `msg = await asyncio.wait_for(self.ws.recv(), timeout=120)` reads the res
\* frame of request_id with ok: the run id is known from here on.
StreamAccepted(c) ==
    /\ gw_pc[c] = "recv"
    /\ ws = "open"
    /\ ~run_id[c]
    /\ run_id' = [run_id EXCEPT ![c] = TRUE]
    /\ last' = Quiet
    /\ UNCHANGED <<now, clientVars, gw_pc, handlerVars, sessionVars>>

\* It reads an agent event of the run, stream "assistant", with a delta,
\* which is yielded.
StreamDelta(c) ==
    /\ gw_pc[c] = "recv"
    /\ ws = "open"
    /\ run_id[c]
    /\ \E delta \in NextDeltas(c) :
          IF c \in Turns
          THEN TurnChunk(c, delta)
          ELSE last' = Quiet /\ UNCHANGED handlerVars
    /\ UNCHANGED <<now, clientVars, callVars, sessionVars>>

\* It reads the chat event of the run with state "final".
StreamFinal(c) ==
    /\ gw_pc[c] = "recv"
    /\ ws = "open"
    /\ run_id[c]
    /\ Returned(c)
    /\ UNCHANGED <<now, clientVars, run_id>>

\* It reads a frame that is skipped: lifecycle end, another run's event,
\* another request's response.
StreamIgnored(c) ==
    /\ gw_pc[c] = "recv"
    /\ ws = "open"
    /\ last' = Quiet
    /\ UNCHANGED <<now, clientVars, callVars, handlerVars, sessionVars>>

\* stream_message raises: ws.send or ws.recv fails, recv times out, the res
\* frame has ok false, the chat event says "aborted" or "error".
StreamFails(c) ==
    /\ gw_pc[c] \in {"send", "recv"}
    /\ Raised(c)
    /\ UNCHANGED <<now, clientVars, run_id>>

\* The socket of self.ws is closed by the other side or the network while a
\* caller awaits it: its recv or send raises, self.ws and self.connected
\* stay as they are.
TransportFails(c) ==
    /\ gw_pc[c] \in {"challenge", "auth", "send", "recv"}
    /\ ws = "open"
    /\ ws' = "closed"
    /\ transports' = transports - 1
    /\ Raised(c)
    /\ UNCHANGED <<now, connected, request_counter, run_id>>

\* self.ws.close() of close() is over.
CloseDone ==
    /\ save_pc = "closing"
    /\ ws' = "None"
    /\ transports' = (IF ws = "open" THEN transports - 1 ELSE transports)
    /\ connected' = FALSE
    /\ save_pc' = "done"
    /\ last' = Quiet
    /\ UNCHANGED <<now, request_counter, callVars, handlerVars, join_pc>>

(***************************************************************************)
(* The rest of intercept_and_forward and the transport's event handlers.   *)
(***************************************************************************)
\* `if not simple_chat`: the two tasks are created.
StartsTimers(message) == ~is_simple_chat(message)

\* `await post_transcript(call_id, "user", user_message)` is over: the
\* utterance is classified, the tasks are created, stream_message is called.
TurnPostUser(t) ==
    LET r == turn[t]
        task == IF StartsTimers(r.user_message) THEN "sleeping" ELSE "None"
    IN  /\ r.pc = "post_user"
        /\ turn' = [turn EXCEPT ![t] =
                [r EXCEPT !.pc = "stream",
                          !.simple_chat = is_simple_chat(r.user_message),
                          !.ack_task = task,
                          !.filler_task = task,
                          !.timers_started = now,
                          !.stream_calls = @ + 1]]
        /\ Begin(t)
        /\ last' = Quiet
        /\ UNCHANGED <<now, closureVars, ws, connected, transports, sessionVars>>

\* on_first_participant_joined of an inbound call, or without context.
JoinInbound ==
    /\ join_pc = "idle"
    /\ join_pc' = "done"
    /\ last' = Quiet
    /\ UNCHANGED <<now, clientVars, callVars, handlerVars, save_pc>>

\* on_first_participant_joined of an outbound call with context:
\* `await gateway_client.connect()`.
JoinOutbound ==
    /\ join_pc = "idle"
    /\ IF connected /\ ws # "None"
       THEN join_pc' = "task_created" /\ UNCHANGED gw_pc
       ELSE /\ join_pc' = "connecting"
            /\ gw_pc' = [gw_pc EXCEPT ![PrimeCaller] = "ws_connect"]
    /\ last' = Quiet
    /\ UNCHANGED <<now, clientVars, run_id, handlerVars, save_pc>>

\* The task of asyncio.create_task(gateway_client.send_message(context_msg)) starts.
PrimeTaskStart ==
    /\ join_pc = "task_created"
    /\ join_pc' = "task"
    /\ Begin(PrimeCaller)
    /\ last' = Quiet
    /\ UNCHANGED <<now, ws, connected, transports, handlerVars, save_pc>>

\* on_participant_left: `await gateway_client.send_message(memory_prompt)`.
Leave ==
    /\ save_pc = "idle"
    /\ save_pc' = "saving"
    /\ Begin(SaveCaller)
    /\ last' = Quiet
    /\ UNCHANGED <<now, ws, connected, transports, handlerVars, join_pc>>

\* on_app_message with "user-started-speaking".
OnAppMessage ==
    /\ last' = Frame("StartInterruptionFrame", 0)
    /\ UNCHANGED <<now, clientVars, callVars, handlerVars, sessionVars>>

\* One second passes.
Advance ==
    /\ now + Seconds(1) <= Seconds(MaxSeconds)
    /\ now' = now + Seconds(1)
    /\ last' = Quiet
    /\ UNCHANGED <<clientVars, callVars, handlerVars, sessionVars>>

\* The steps of the interceptor, its tasks and the gateway client.
Next ==
    \/ \E u \in Utterances : UtteranceDropped(u) /\ UNCHANGED unitVars
    \/ \E u \in Utterances, t \in Turns : UtteranceAdmitted(u, t, MaxRequests) /\ UNCHANGED unitVars
    \/ \E t \in Turns : TurnPostUser(t) /\ UNCHANGED unitVars
    \/ \E t \in Turns : AckSpeak(t) /\ UNCHANGED unitVars
    \/ \E t \in Turns : AckSkip(t) /\ UNCHANGED unitVars
    \/ \E t \in Turns : FillerSpeak(t) /\ UNCHANGED unitVars
    \/ \E t \in Turns : FillerSkip(t) /\ UNCHANGED unitVars
    \/ \E t \in Turns : TurnPostAssistant(t) /\ UNCHANGED unitVars
    \/ \E t \in Turns : TurnFarewell(t) /\ UNCHANGED unitVars
    \/ \E t \in Turns : TurnJoinAck(t) /\ UNCHANGED unitVars
    \/ \E t \in Turns : TurnJoinFiller(t) /\ UNCHANGED unitVars
    \/ \E c \in Turns : ConnectOpen(c) /\ UNCHANGED unitVars
    \/ \E c \in Turns : ConnectChallenge(c) /\ UNCHANGED unitVars
    \/ \E c \in Turns : ConnectAuth(c) /\ UNCHANGED unitVars
    \/ \E c \in Turns : ConnectUncorrelated(c) /\ UNCHANGED unitVars
    \/ \E c \in Turns : ConnectFails(c) /\ UNCHANGED unitVars
    \/ \E c \in Turns : StreamSend(c) /\ UNCHANGED unitVars
    \/ \E c \in Turns : StreamAccepted(c) /\ UNCHANGED unitVars
    \/ \E c \in Turns : StreamDelta(c) /\ UNCHANGED unitVars
    \/ \E c \in Turns : StreamFinal(c) /\ UNCHANGED unitVars
    \/ \E c \in Turns : StreamIgnored(c) /\ UNCHANGED unitVars
    \/ \E c \in Turns : StreamFails(c) /\ UNCHANGED unitVars
    \/ Advance /\ UNCHANGED unitVars

\* The call while the participant is in it: utterances arrive and are
\* answered, whatever the gateway does.
Spec == Init /\ [][Next]_vars

\* Small talk with a gateway that answers every request: no timer is
\* started and nothing raises.
NextChat ==
    \/ \E u \in ChatUtterances : UtteranceDropped(u) /\ UNCHANGED unitVars
    \/ \E u \in ChatUtterances, t \in Turns : UtteranceAdmitted(u, t, MaxChatRequests) /\ UNCHANGED unitVars
    \/ \E t \in Turns : TurnPostUser(t) /\ UNCHANGED unitVars
    \/ \E t \in Turns : TurnPostAssistant(t) /\ UNCHANGED unitVars
    \/ \E t \in Turns : TurnFarewell(t) /\ UNCHANGED unitVars
    \/ \E c \in Turns : ConnectOpen(c) /\ UNCHANGED unitVars
    \/ \E c \in Turns : ConnectChallenge(c) /\ UNCHANGED unitVars
    \/ \E c \in Turns : ConnectAuth(c) /\ UNCHANGED unitVars
    \/ \E c \in Turns : StreamSend(c) /\ UNCHANGED unitVars
    \/ \E c \in Turns : StreamAccepted(c) /\ UNCHANGED unitVars
    \/ \E c \in Turns : StreamDelta(c) /\ UNCHANGED unitVars
    \/ \E c \in Turns : StreamFinal(c) /\ UNCHANGED unitVars
    \/ Advance /\ UNCHANGED unitVars

SpecChat == Init /\ [][NextChat]_vars

\* on_first_participant_joined was called: the participant can be heard.
Joined == join_pc # "idle"

\* The call with the join and leave handlers of the transport, which use the
\* gateway client too.
NextCall ==
    \/ \E u \in Utterances : Joined /\ UtteranceDropped(u) /\ UNCHANGED unitVars
    \/ \E u \in Utterances, t \in Turns : Joined /\ UtteranceAdmitted(u, t, MaxCallRequests) /\ UNCHANGED unitVars
    \/ \E t \in Turns : TurnPostUser(t) /\ UNCHANGED unitVars
    \/ \E t \in Turns : AckSpeak(t) /\ UNCHANGED unitVars
    \/ \E t \in Turns : AckSkip(t) /\ UNCHANGED unitVars
    \/ \E t \in Turns : FillerSpeak(t) /\ UNCHANGED unitVars
    \/ \E t \in Turns : FillerSkip(t) /\ UNCHANGED unitVars
    \/ \E t \in Turns : TurnPostAssistant(t) /\ UNCHANGED unitVars
    \/ \E t \in Turns : TurnFarewell(t) /\ UNCHANGED unitVars
    \/ \E t \in Turns : TurnJoinAck(t) /\ UNCHANGED unitVars
    \/ \E t \in Turns : TurnJoinFiller(t) /\ UNCHANGED unitVars
    \/ \E c \in Callers : ConnectOpen(c) /\ UNCHANGED unitVars
    \/ \E c \in Callers : ConnectChallenge(c) /\ UNCHANGED unitVars
    \/ \E c \in Callers : ConnectAuth(c) /\ UNCHANGED unitVars
    \/ \E c \in Callers : ConnectUncorrelated(c) /\ UNCHANGED unitVars
    \/ \E c \in Callers : ConnectFails(c) /\ UNCHANGED unitVars
    \/ \E c \in Callers : StreamSend(c) /\ UNCHANGED unitVars
    \/ \E c \in Callers : StreamAccepted(c) /\ UNCHANGED unitVars
    \/ \E c \in Callers : StreamDelta(c) /\ UNCHANGED unitVars
    \/ \E c \in Callers : StreamFinal(c) /\ UNCHANGED unitVars
    \/ \E c \in Callers : StreamIgnored(c) /\ UNCHANGED unitVars
    \/ \E c \in Callers : StreamFails(c) /\ UNCHANGED unitVars
    \/ CloseDone /\ UNCHANGED unitVars
    \/ JoinInbound /\ UNCHANGED unitVars
    \/ JoinOutbound /\ UNCHANGED unitVars
    \/ PrimeTaskStart /\ UNCHANGED unitVars
    \/ Joined /\ Leave /\ UNCHANGED unitVars
    \/ OnAppMessage /\ UNCHANGED unitVars
    \/ Advance /\ UNCHANGED unitVars

SpecCall == Init /\ [][NextCall]_vars

\* Small talk over a transport that can fail at every await.
NextTransport ==
    \/ \E u \in ChatUtterances : UtteranceDropped(u) /\ UNCHANGED unitVars
    \/ \E u \in ChatUtterances, t \in Turns : UtteranceAdmitted(u, t, MaxTransportRequests) /\ UNCHANGED unitVars
    \/ \E t \in Turns : TurnPostUser(t) /\ UNCHANGED unitVars
    \/ \E t \in Turns : TurnPostAssistant(t) /\ UNCHANGED unitVars
    \/ \E t \in Turns : TurnFarewell(t) /\ UNCHANGED unitVars
    \/ \E c \in Turns : ConnectOpen(c) /\ UNCHANGED unitVars
    \/ \E c \in Turns : ConnectChallenge(c) /\ UNCHANGED unitVars
    \/ \E c \in Turns : ConnectAuth(c) /\ UNCHANGED unitVars
    \/ \E c \in Turns : ConnectUncorrelated(c) /\ UNCHANGED unitVars
    \/ \E c \in Turns : ConnectFails(c) /\ UNCHANGED unitVars
    \/ \E c \in Turns : StreamSend(c) /\ UNCHANGED unitVars
    \/ \E c \in Turns : StreamAccepted(c) /\ UNCHANGED unitVars
    \/ \E c \in Turns : StreamDelta(c) /\ UNCHANGED unitVars
    \/ \E c \in Turns : StreamFinal(c) /\ UNCHANGED unitVars
    \/ \E c \in Turns : StreamFails(c) /\ UNCHANGED unitVars
    \/ \E c \in Turns : TransportFails(c) /\ UNCHANGED unitVars
    \/ Advance /\ UNCHANGED unitVars

SpecTransport == Init /\ [][NextTransport]_vars

\* It reads a further agent event of the run, whose delta is the full stop
\* that ends the sentence the script began, and yields it.
StreamSentence(c) ==
    /\ gw_pc[c] = "recv"
    /\ ws = "open"
    /\ run_id[c]
    /\ c \in Turns
    /\ turn[c].full_response = ScriptText(Len(Script))
    /\ TurnChunk(c, <<".">>)
    /\ UNCHANGED <<now, clientVars, callVars, sessionVars>>

\* Small talk with a gateway whose reply holds a whole sentence and whose
\* stream can fail at every await.
NextSentences ==
    \/ \E u \in ChatUtterances : UtteranceDropped(u) /\ UNCHANGED unitVars
    \/ \E u \in ChatUtterances, t \in Turns : UtteranceAdmitted(u, t, MaxRequests) /\ UNCHANGED unitVars
    \/ \E t \in Turns : TurnPostUser(t) /\ UNCHANGED unitVars
    \/ \E t \in Turns : TurnPostAssistant(t) /\ UNCHANGED unitVars
    \/ \E t \in Turns : TurnFarewell(t) /\ UNCHANGED unitVars
    \/ \E c \in Turns : ConnectOpen(c) /\ UNCHANGED unitVars
    \/ \E c \in Turns : ConnectChallenge(c) /\ UNCHANGED unitVars
    \/ \E c \in Turns : ConnectAuth(c) /\ UNCHANGED unitVars
    \/ \E c \in Turns : ConnectFails(c) /\ UNCHANGED unitVars
    \/ \E c \in Turns : StreamSend(c) /\ UNCHANGED unitVars
    \/ \E c \in Turns : StreamAccepted(c) /\ UNCHANGED unitVars
    \/ \E c \in Turns : StreamDelta(c) /\ UNCHANGED unitVars
    \/ \E c \in Turns : StreamSentence(c) /\ UNCHANGED unitVars
    \/ \E c \in Turns : StreamFinal(c) /\ UNCHANGED unitVars
    \/ \E c \in Turns : StreamFails(c) /\ UNCHANGED unitVars
    \/ Advance /\ UNCHANGED unitVars

SpecSentences == Init /\ [][NextSentences]_vars

(***************************************************************************)
(* stream_message frame by frame: the loop of lines 299-357 over the       *)
(* frames the gateway sends after chat.send.  The transport stays open     *)
(* here; its failures are StreamFails above.                               *)
(***************************************************************************)
\* Everything but the two loops followed on their own.
botVars == <<now, closureVars, clientVars, callVars, turn, sessionVars, last>>

\* f"chat-{self.request_counter}" of the call that is followed.
request_id == "chat-1"

\* A second delta, after "You have".
DeltaMail == <<" ", "m", "a", "i", "l">>

\* {type: "res", id, ok, payload: {runId}}
ResFrame(id, ok, runId) ==
    [type |-> "res", id |-> id, ok |-> ok, event |-> "None", runId |-> runId,
     stream |-> "None", has_delta |-> FALSE, delta |-> <<>>, phase |-> "None",
     state |-> "None"]

\* {type: "event", event: "agent", payload: {runId, stream: "assistant", data}}
\* with data.delta or without.
AssistantFrame(runId, has_delta, delta) ==
    [type |-> "event", id |-> "None", ok |-> FALSE, event |-> "agent",
     runId |-> runId, stream |-> "assistant", has_delta |-> has_delta,
     delta |-> delta, phase |-> "None", state |-> "None"]

\* {type: "event", event: "agent", payload: {runId, stream: "lifecycle",
\* data: {phase}}}
LifecycleFrame(runId, phase) ==
    [type |-> "event", id |-> "None", ok |-> FALSE, event |-> "agent",
     runId |-> runId, stream |-> "lifecycle", has_delta |-> FALSE,
     delta |-> <<>>, phase |-> phase, state |-> "None"]

\* {type: "event", event: "chat", payload: {runId, state}}
ChatFrame(runId, state) ==
    [type |-> "event", id |-> "None", ok |-> FALSE, event |-> "chat",
     runId |-> runId, stream |-> "None", has_delta |-> FALSE, delta |-> <<>>,
     phase |-> "None", state |-> state]

\* What the gateway sends: the answer to this request and to another one,
\* and the events of this request's run ("run-1") and of another run.
Frames ==
    {ResFrame(request_id, TRUE, "run-1"), ResFrame(request_id, FALSE, "None"),
     ResFrame("chat-2", TRUE, "run-2"), ResFrame("chat-2", FALSE, "None")}
    \cup {AssistantFrame("run-1", TRUE, d) : d \in {DeltaYouHave, DeltaMail}}
    \cup {AssistantFrame("run-2", TRUE, DeltaYouHave),
          AssistantFrame("run-1", FALSE, <<>>)}
    \cup {LifecycleFrame(r, "end") : r \in {"run-1", "run-2"}}
    \cup {ChatFrame("run-1", s) : s \in {"final", "aborted", "error"}}
    \cup {ChatFrame("run-2", s) : s \in {"final", "error"}}

\* `frame.get("type") == "res" and frame.get("id") == request_id`
IsResponse(frame) == frame.type = "res" /\ frame.id = request_id

\* `frame.get("type") == "event" and frame.get("event") == "agent"`
IsAgent(frame) == frame.type = "event" /\ frame.event = "agent"

\* `frame.get("type") == "event" and frame.get("event") == "chat"`
IsChat(frame) == frame.type = "event" /\ frame.event = "chat"

\* Variant: events are taken whatever their run.
OursAlways(run, frame) == TRUE

\* `run_id and payload.get("runId") == run_id`
Ours(run, frame) == run # "None" /\ frame.runId = run

\* Variant: the lifecycle end of the run ends the stream too.
EndsOrLifecycleEnd(run, frame) ==
    \/ IsChat(frame) /\ Ours(run, frame) /\ frame.state = "final"
    \/ /\ IsAgent(frame) /\ Ours(run, frame)
       /\ frame.stream = "lifecycle" /\ frame.phase = "end"

\* The frame at which stream_message returns: `if state == "final": return`.
Ends(run, frame) ==
    IsChat(frame) /\ Ours(run, frame) /\ frame.state = "final"

\* One pass of the loop body over a frame read while the local run_id has
\* the value given: the new run_id, what is yielded, and how the pass ends.
OnFrame(run_id_before, frame) ==
    LET run == IF IsResponse(frame) /\ frame.ok THEN frame.runId
               ELSE run_id_before
    IN  [run_id |-> run,
         yields |-> IF /\ IsAgent(frame) /\ Ours(run, frame)
                       /\ frame.stream = "assistant" /\ frame.has_delta
                    THEN <<frame.delta>> ELSE <<>>,
         pc |-> IF IsResponse(frame) /\ ~frame.ok THEN "raised"
                ELSE IF Ends(run, frame) THEN "returned"
                ELSE IF /\ IsChat(frame) /\ Ours(run, frame)
                        /\ frame.state \in {"aborted", "error"} THEN "raised"
                ELSE "reading",
         error |-> IF IsResponse(frame) /\ ~frame.ok THEN "Chat request failed"
                   ELSE IF /\ IsChat(frame) /\ Ours(run, frame)
                           /\ frame.state \in {"aborted", "error"}
                   THEN "Chat failed"
                   ELSE "None"]

\* The clock of the pending recv moves in halves of the timeout.
ReadQuantum == READ_TIMEOUT \div 2

\* The gateway answers a request once.
Answered == \E k \in 1..Len(reader.received) : IsResponse(reader.received[k])

\* `msg = await asyncio.wait_for(self.ws.recv(), timeout=120)` reads a
\* response, an agent event or a chat event, and the loop body runs.
ReaderRead(frame) ==
    LET pass == OnFrame(reader.run_id, frame)
    IN  /\ reader.pc = "reading"
        /\ reader.waited < READ_TIMEOUT
        /\ Len(reader.received) < MaxFrames
        /\ IsResponse(frame) => ~Answered
        /\ reader' = [pc |-> pass.pc, error |-> pass.error,
                      run_id |-> pass.run_id,
                      yielded |-> reader.yielded \o pass.yields,
                      received |-> Append(reader.received, frame),
                      waited |-> 0]
        /\ UNCHANGED <<botVars, chunker, heard, recorder, rotation>>

\* The same await reads a frame the loop body has no branch for (an event
\* by another name): the next recv starts.
ReaderSkip ==
    /\ reader.pc = "reading"
    /\ 0 < reader.waited /\ reader.waited < READ_TIMEOUT
    /\ reader' = [reader EXCEPT !.waited = 0]
    /\ UNCHANGED <<botVars, chunker, heard, recorder, rotation>>

\* Time passes while recv is pending.
ReaderWait ==
    /\ reader.pc = "reading"
    /\ reader.waited < READ_TIMEOUT
    /\ reader' = [reader EXCEPT !.waited = @ + ReadQuantum]
    /\ UNCHANGED <<botVars, chunker, heard, recorder, rotation>>

\* wait_for raises asyncio.TimeoutError: `raise Exception("Gateway timeout")`.
ReaderTimeout ==
    /\ reader.pc = "reading"
    /\ reader.waited >= READ_TIMEOUT
    /\ reader' = [reader EXCEPT !.pc = "raised", !.error = "Gateway timeout"]
    /\ UNCHANGED <<botVars, chunker, heard, recorder, rotation>>

NextStream ==
    \/ \E frame \in Frames : ReaderRead(frame)
    \/ ReaderSkip
    \/ ReaderWait
    \/ ReaderTimeout

\* One call of stream_message against every sequence of frames.
SpecStream == Init /\ [][NextStream]_vars

\* The same with time that passes and a timeout that is raised when due.
SpecStreamLive ==
    Init /\ [][NextStream]_vars /\ WF_vars(ReaderWait) /\ WF_vars(ReaderTimeout)

(***************************************************************************)
(* The chunking loop chunk by chunk: the body of `async for chunk in       *)
(* stream_message(...)` (lines 726-769) and the flush after it (772-775),  *)
(* over every short fragment.                                              *)
(***************************************************************************)
\* The characters fragments are made of: a letter, the space and the four
\* sentence ends.
Alphabet == {"a", " ", ".", "!", "?", "\n"}

\* A reply that comes as one fragment.
FragmentHello ==
    <<"H", "e", "l", "l", "o", " ", "t", "h", "e", "r", "e", ".", " ",
      "H", "o", "w", " ", "a", "r", "e", " ", "y", "o", "u", "?">>

\* The deltas stream_message may yield.
Fragments ==
    UNION {[1..n -> Alphabet] : n \in 0..MaxFragmentLen} \cup {FragmentHello}

\* One iteration of the loop: the chunk is appended to full_response and
\* text_buffer, and at most one TTSSpeakFrame is queued.
ChunkerFeed(chunk) ==
    LET step == ChunkStep(chunker.text_buffer \o chunk)
    IN  /\ chunker.pc = "stream"
        /\ chunker.fragments < MaxFragments
        /\ chunker' = [chunker EXCEPT
                !.full_response = @ \o chunk,
                !.text_buffer = step.text_buffer,
                !.chunks = IF Speaks(step) THEN Append(@, step.send_text) ELSE @,
                !.fragments = @ + 1]
        /\ UNCHANGED <<botVars, reader, heard, recorder, rotation>>

\* The stream ends: `if text_buffer.strip()` queues what is left.
ChunkerEnd ==
    /\ chunker.pc = "stream"
    /\ chunker' = [chunker EXCEPT
            !.pc = "ended",
            !.chunks = IF Strip(chunker.text_buffer) # <<>>
                       THEN Append(@, chunker.text_buffer) ELSE @]
    /\ UNCHANGED <<botVars, reader, heard, recorder, rotation>>

NextChunker ==
    \/ \E chunk \in Fragments : ChunkerFeed(chunk)
    \/ ChunkerEnd

\* The chunking loop against every sequence of short fragments.
SpecChunker == Init /\ [][NextChunker]_vars

\* Lengths of the run-on fragments, around the threshold of 150.
LongLengths == {150, 151, 200}

\* Offsets (0-based) at which a run-on fragment may hold a space, around the
\* two limits of the cut.
SpaceOffsets == {50, 51, 100, 149, 150}

\* A fragment without punctuation: letters, and spaces at the given offsets.
LongText(length, offsets) ==
    [i \in 1..length |-> IF (i - 1) \in offsets THEN " " ELSE "a"]

\* Run-on fragments, a word that follows one, and an empty delta.
LongFragments ==
    {LongText(n, offsets) : n \in LongLengths, offsets \in SUBSET SpaceOffsets}
    \cup {<<>>, <<"a">>, <<" ">>}

NextChunkerLong ==
    \/ \E chunk \in LongFragments : ChunkerFeed(chunk)
    \/ ChunkerEnd

\* The chunking loop against fragments without punctuation.
SpecChunkerLong == Init /\ [][NextChunkerLong]_vars

(***************************************************************************)
(* is_farewell on its own, over texts made of a few words, spaces and      *)
(* punctuation marks.                                                      *)
(***************************************************************************)
\* What a text is made of.
Tokens ==
    {<<"b", "y", "e">>, <<"n", "i", "g", "h", "t">>, <<"o", "k", "a", "y">>,
     <<" ">>, <<"!">>, <<".">>}

\* The texts of up to n tokens.
RECURSIVE TextsOf(_)
TextsOf(n) ==
    IF n = 0 THEN {<<>>}
    ELSE TextsOf(n - 1) \cup {t \o k : t \in TextsOf(n - 1), k \in Tokens}

Texts == TextsOf(MaxTokens)

\* is_farewell(message) is called.
Hear(message) ==
    /\ heard' = [message |-> message, farewell |-> is_farewell(message)]
    /\ UNCHANGED <<botVars, reader, chunker, recorder, rotation>>

\* It is called with the text heard before followed by an exclamation mark.
HearExclaimed ==
    /\ heard.message \in Texts
    /\ Hear(heard.message \o <<"!">>)

NextClassifier ==
    \/ \E message \in Texts : Hear(message)
    \/ HearExclaimed

\* The classifier against every text.
SpecClassifier == Init /\ [][NextClassifier]_vars

(***************************************************************************)
(* The recording of responses at the end of a stream on its own, over      *)
(* responses that differ from each other.                                  *)
(***************************************************************************)
\* Full responses of a stream: four texts, a blank one and none.
Responses == {<<"a">>, <<"b">>, <<"c">>, <<"d">>, <<" ">>, <<>>}

\* chunks_sent at the end of a stream with this full response: text that is
\* not blank was queued in the loop or at the flush, blank text never is.
ChunksSent(response) == IF Strip(response) = <<>> THEN {0} ELSE {1, 2}

\* A stream ends with chunks_sent chunks queued and this full response.
Complete(sent, response) ==
    /\ Len(recorder.completed) < MaxCompletions
    /\ recorder' =
           [recent_bot_responses |->
                IF EmptyResponse(sent, response)
                THEN recorder.recent_bot_responses
                ELSE Recorded(recorder.recent_bot_responses, response),
            completed |-> Append(recorder.completed, response)]
    /\ UNCHANGED <<botVars, reader, chunker, heard, rotation>>

NextRecorder ==
    \E response \in Responses : \E sent \in ChunksSent(response) :
        Complete(sent, response)

\* The recording against every sequence of completions.
SpecRecorder == Init /\ [][NextRecorder]_vars

(***************************************************************************)
(* The two phrase rotations on their own, over every choice random.choice  *)
(* can make.                                                               *)
(***************************************************************************)
\* Phrases spoken so far.
SpokenSoFar == Len(rotation.acknowledgments) + Len(rotation.fillers)

\* send_acknowledgment_after_delay picks its phrase (choice k).
PickAcknowledgment(k) ==
    LET recent == Rotate(IMMEDIATE_PHRASES, rotation.recent_immediate,
                         MAX_RECENT_IMMEDIATE, k)
    IN  /\ SpokenSoFar < MaxSpoken
        /\ rotation' = [rotation EXCEPT
               !.recent_immediate = recent,
               !.acknowledgments = Append(@, recent[Len(recent)])]
        /\ UNCHANGED <<botVars, reader, chunker, heard, recorder>>

\* send_filler_after_delay picks its phrase (choice k).
PickFiller(k) ==
    LET recent == Rotate(FILLER_PHRASES, rotation.recent_fillers,
                         MAX_RECENT_FILLERS, k)
    IN  /\ SpokenSoFar < MaxSpoken
        /\ rotation' = [rotation EXCEPT
               !.recent_fillers = recent,
               !.fillers = Append(@, recent[Len(recent)])]
        /\ UNCHANGED <<botVars, reader, chunker, heard, recorder>>

NextRotation ==
    \/ \E k \in 1..Len(IMMEDIATE_PHRASES) : PickAcknowledgment(k)
    \/ \E k \in 1..Len(FILLER_PHRASES) : PickFiller(k)

\* The rotations against every choice.
SpecRotation == Init /\ [][NextRotation]_vars

(***************************************************************************)
(* The processing guard around the call of stream_message that is followed *)
(* frame by frame: the gate takes the guard and calls stream_message, and  *)
(* the guard is given back when the call has returned or raised.           *)
(***************************************************************************)
\* An utterance passes the gate (lines 613-649) and the invocation calls
\* stream_message for the first request of the client, "chat-1".
GuardTaken(u) ==
    /\ GateResult(u) = "admitted"
    /\ request_counter = 0
    /\ processing_in_progress' = TRUE
    /\ bot_is_speaking' = FALSE
    /\ last_processed_message' = u
    /\ request_counter' = request_counter + 1
    /\ reader' = NewReader
    /\ last' = Decision("admitted")
    /\ UNCHANGED <<now, recent_immediate, recent_fillers, recent_bot_responses,
                   last_bot_speech_end, ws, connected, transports, callVars,
                   turn, sessionVars, chunker, heard, recorder, rotation>>

\* The call has returned or raised: a response that is not empty is recorded
\* and the flags are cleared (lines 788-797), or the finally block clears
\* them (lines 822-823).
GuardReleased ==
    LET deltas == reader.yielded
        text[n \in 0..Len(deltas)] ==
            IF n = 0 THEN <<>> ELSE text[n - 1] \o deltas[n]
        full_response == text[Len(deltas)]
    IN  /\ processing_in_progress
        /\ reader.pc # "reading"
        /\ FinallyFlags
        /\ \E sent \in ChunksSent(full_response) :
              IF reader.pc = "returned" /\ ~EmptyResponse(sent, full_response)
              THEN /\ recent_bot_responses' =
                          Recorded(recent_bot_responses, full_response)
                   /\ last_bot_speech_end' = now + Len(full_response)
              ELSE UNCHANGED <<recent_bot_responses, last_bot_speech_end>>
        /\ last' = Quiet
        /\ UNCHANGED <<now, recent_immediate, recent_fillers,
                       last_processed_message, clientVars, callVars, turn,
                       sessionVars, unitVars>>

NextGuard ==
    \/ \E u \in ChatUtterances : GuardTaken(u)
    \/ \E frame \in Frames : processing_in_progress /\ ReaderRead(frame)
    \/ processing_in_progress /\ ReaderSkip
    \/ processing_in_progress /\ ReaderWait
    \/ processing_in_progress /\ ReaderTimeout
    \/ GuardReleased

\* Time passes while a read is pending, the timeout is raised when it is due
\* and the invocation goes on when stream_message has ended.
SpecGuardLive ==
    /\ Init
    /\ [][NextGuard]_vars
    /\ WF_vars(processing_in_progress /\ ReaderWait)
    /\ WF_vars(processing_in_progress /\ ReaderTimeout)
    /\ WF_vars(GuardReleased)
(***************************************************************************)
(* Properties.                                                             *)
(***************************************************************************)
\* The gate's return statements.
Drops == {"duplicate", "busy", "echo_speaking", "cooldown", "echo"}

\* Positions of an invocation at which its locals are all in use.
Live == {"post_user", "stream", "post_assistant", "farewell_sleep"}

\* The frames of the two timer tasks.
Phrases == {"acknowledgment", "filler"}

\* The step queued a phrase of invocation t.
PhraseOf(t) == last'.turn = t /\ last'.frame \in Phrases

\* What a dropped utterance must leave alone.
Untouched == <<closureVars, clientVars, callVars, turn>>

\* C1: at most one invocation of the interceptor is between the gate and
\* its end (its post-completion awaits and its finally block included).
C1_OneTurnInProcessing ==
    Cardinality({t \in Turns : turn[t].pc # "idle"}) <= 1

\* C2: at most one caller (utterance turn, priming task, memory save) is
\* inside stream_message with the request sent or being sent.
C2_OneRunInFlight ==
    Cardinality({c \in Callers : gw_pc[c] \in {"send", "recv"}}) <= 1

\* C3: an utterance equal to last_processed_message is dropped at the dedup
\* check; the drop touches neither the handler's state nor the gateway
\* client; last_processed_message changes only by an admission.
C3_VerbatimDedup ==
    /\ [](\A u \in Utterances :
            u = last_processed_message => GateResult(u) = "duplicate")
    /\ [][last'.gate = "duplicate" => UNCHANGED Untouched]_vars
    /\ [][last_processed_message' # last_processed_message
            => last'.gate = "admitted"]_vars

\* C3: a duplicate was dropped after every earlier invocation had ended.
C3_DuplicateDropped ==
    /\ last.gate = "duplicate"
    /\ \A t \in Turns : turn[t].pc = "idle"

\* C4: an utterance that arrives while the bot is speaking, differs from
\* last_processed_message and is no echo at 0.3 is admitted.
C4_BargeInAdmitted ==
    \A u \in Utterances :
        (/\ bot_is_speaking
         /\ u # last_processed_message
         /\ ~is_echo(u, recent_bot_responses, ECHO_SPEAKING_TENTHS))
        => GateResult(u) = "admitted"

\* C5: an utterance that arrives while the bot is speaking and is an echo at
\* 0.3 is dropped, at the echo-while-speaking check if not before, and the
\* drop makes no remote call.
C5_EchoWhileSpeaking ==
    /\ [](\A u \in Utterances :
            (bot_is_speaking /\ is_echo(u, recent_bot_responses, ECHO_SPEAKING_TENTHS))
            => GateResult(u) \in {"duplicate", "busy", "echo_speaking"})
    /\ [][last'.gate = "echo_speaking"
            => UNCHANGED <<clientVars, callVars, turn>>]_vars

\* C5: an utterance was dropped at the echo-while-speaking check.
C5_EchoDropped == last.gate = "echo_speaking"

\* C6: a dropped utterance changes nothing: not the closure variables (flags,
\* cooldown, recent responses, rotations), not the gateway client, not any
\* invocation.
C6_HardDrop == [][last'.gate \in Drops => UNCHANGED Untouched]_vars

\* C7: a fragment sets first_chunk_received, and once it is set no
\* acknowledgment or filler phrase of that invocation is queued.
C7_NoPhraseAfterFirstChunk ==
    /\ [](\A t \in Turns :
            turn[t].full_response # <<>> => turn[t].first_chunk_received)
    /\ [][\A t \in Turns : turn[t].first_chunk_received => ~PhraseOf(t)]_vars

\* C7: the first fragment came before the acknowledgment task woke up, and
\* the task ended without speaking.
C7_AckSkipped ==
    \E t \in Turns :
        /\ turn[t].full_response # <<>>
        /\ turn[t].ack_task = "done"
        /\ ~turn[t].acknowledgment_sent
        /\ now >= AckWake(t)

\* C8: a filler phrase is queued no earlier than ACK_DELAY + FILLER_DELAY
\* seconds after the timers of its invocation were started.
C8_FillerAfterBothDelays ==
    last.frame = "filler"
        => now >= turn[last.turn].timers_started + Seconds(ACK_DELAY + FILLER_DELAY)

\* C9: an invocation that has ended has no timer task left, and no phrase of
\* an ended invocation is queued.
C9_TimersJoined ==
    /\ [](\A t \in Turns :
            turn[t].pc = "idle"
            => turn[t].ack_task = "None" /\ turn[t].filler_task = "None")
    /\ [][\A t \in Turns : turn[t].pc = "idle" => ~PhraseOf(t)]_vars

\* C9: every invocation has ended, the last one handed over to the local
\* LLM, and the utterance admitted last had started timers that cannot have
\* ended by themselves: they were cancelled.
C9_CancelledAndEnded ==
    /\ last.frame = "forward"
    /\ \A t \in Turns : turn[t].pc = "idle"
    /\ last_processed_message \in Utterances
    /\ ~is_simple_chat(last_processed_message)
    /\ now = StartTime

\* C10: every admitted utterance makes one call of stream_message; the
\* timers exist exactly for the utterances that are no simple chat, and no
\* phrase is queued for a simple-chat utterance.
C10_SimpleChatOnlySkipsTimers ==
    /\ [](\A t \in Turns :
            turn[t].pc \in Live \ {"post_user"} =>
                /\ turn[t].stream_calls = 1
                /\ is_simple_chat(turn[t].user_message)
                     <=> (turn[t].ack_task = "None" /\ turn[t].filler_task = "None"))
    /\ [][\A t \in Turns :
            (PhraseOf(t) /\ turn[t].pc \in Live)
            => ~is_simple_chat(turn[t].user_message)]_vars

\* C10: a simple-chat utterance was answered by the gateway, later than the
\* acknowledgment delay, without a timer.
C10_SimpleChatAnswered ==
    \E t \in Turns :
        /\ turn[t].pc = "post_assistant"
        /\ is_simple_chat(turn[t].user_message)
        /\ turn[t].stream_calls = 1
        /\ turn[t].ack_task = "None"
        /\ now >= turn[t].timers_started + Seconds(ACK_DELAY)

\* C11: EndFrame is queued only by an invocation whose utterance is a
\* farewell and whose stream ended with a response that was spoken, no
\* earlier than three seconds after the stream ended, and the invocation
\* returns with it; from the end of the stream on the invocation queues no
\* further chunk; such an invocation goes from the recorded response to the
\* sleep and leaves the sleep only by queueing EndFrame: once, then.
C11_FarewellEndsCall ==
    /\ [][last'.frame = "EndFrame" =>
            /\ last'.turn \in Turns
            /\ turn[last'.turn].pc = "farewell_sleep"
            /\ turn'[last'.turn].pc # "farewell_sleep"
            /\ is_farewell(turn[last'.turn].user_message)
            /\ ~EmptyResponse(turn[last'.turn].chunks_sent,
                              turn[last'.turn].full_response)
            /\ now >= turn[last'.turn].stream_complete_time
                          + Seconds(FAREWELL_WAIT)]_vars
    /\ [][\A t \in Turns :
            turn[t].pc \in {"post_assistant", "farewell_sleep"}
            => ~(last'.turn = t /\ last'.frame = "chunk")]_vars
    /\ [][\A t \in Turns :
            /\ (turn[t].pc = "post_assistant" /\ turn'[t].pc # "post_assistant"
                 /\ is_farewell(turn[t].user_message))
               => turn'[t].pc = "farewell_sleep"
            /\ (turn[t].pc = "farewell_sleep" /\ turn'[t].pc # "farewell_sleep")
               => last' = Frame("EndFrame", t)]_vars

\* C11: the call was ended by a farewell whose response is recorded, and the
\* invocation is over.
C11_CallEnded ==
    /\ last.frame = "EndFrame"
    /\ turn[last.turn].pc = "idle"
    /\ recent_bot_responses # <<>>
    /\ is_farewell(last_processed_message)

\* The finally block's awaits.
Joins == {"join_ack", "join_filler"}

\* Invocation t is left by this step without stream_message having been
\* answered: neither recorded response nor cooldown, the way to
\* original_push taken.
FallsThrough(t) ==
    /\ UNCHANGED <<recent_bot_responses, last_bot_speech_end>>
    /\ turn'[t].pc \in Joins \cup {"idle"}
    /\ ~turn'[t].handled
    /\ turn'[t].pc = "idle" => last' = Frame("forward", t)

\* original_push is called by the step that ends an invocation which has
\* not handled the response, and by no other step: once for such an
\* invocation, never for another.
ForwardedAtEnd ==
    \A t \in Turns :
        /\ (turn[t].pc \in Joins /\ turn'[t].pc \in Joins)
           => turn'[t].handled = turn[t].handled
        /\ (turn[t].pc \in Joins /\ turn'[t].pc = "idle" /\ ~turn[t].handled)
           => last' = Frame("forward", t)
        /\ last' = Frame("forward", t)
           => turn[t].pc # "idle" /\ turn'[t].pc = "idle" /\ ~turn[t].handled

\* C12: when stream_message returns to an invocation that has queued no
\* chunk and has nothing to flush, recent_bot_responses and
\* last_bot_speech_end stay as they are and the invocation goes on to
\* original_push, which it calls once, in the step that ends it.
C12_EmptyFallsThrough ==
    /\ [][\A t \in Turns :
            (/\ turn[t].pc = "stream"
             /\ turn[t].chunks_sent = 0
             /\ Strip(turn[t].text_buffer) = <<>>
             /\ StreamFinal(t))
            => FallsThrough(t)]_vars
    /\ [][ForwardedAtEnd]_vars

\* C12: an invocation whose stream ended without a delta awaits its
\* cancelled acknowledgment task, the response not handled.
C12_EmptyCompleted ==
    \E t \in Turns :
        /\ turn[t].pc = "join_ack"
        /\ ~turn[t].first_chunk_received
        /\ ~turn[t].handled
        /\ recent_bot_responses = <<>>
        /\ last_bot_speech_end = 0

\* C13: when connect() or stream_message raises into an invocation, the
\* exception is caught: recent_bot_responses and last_bot_speech_end stay as
\* they are, the flags are cleared, no phrase of the invocation is queued
\* from then on, no task is left when it has ended, and original_push is
\* called once, in the step that ends it.
C13_FailureFallsThrough ==
    /\ [][\A t \in Turns :
            (turn[t].pc = "stream" /\ (ConnectFails(t) \/ StreamFails(t)))
            => /\ FallsThrough(t)
               /\ turn'[t].pc = "join_ack" => turn'[t].first_chunk_received
               /\ ~processing_in_progress' /\ ~bot_is_speaking']_vars
    /\ [][\A t \in Turns :
            \/ turn[t].pc = "join_ack" /\ turn[t].first_chunk_received
            \/ turn[t].pc = "join_filler"
            => ~PhraseOf(t)]_vars
    /\ [](\A t \in Turns :
            turn[t].pc = "idle"
            => turn[t].ack_task = "None" /\ turn[t].filler_task = "None")
    /\ [][ForwardedAtEnd]_vars

\* C13: an invocation whose gateway call raised awaits its cancelled
\* acknowledgment task, the response not handled.
C13_FailureCaught ==
    \E t \in Turns :
        /\ turn[t].pc = "join_ack"
        /\ turn[t].ack_task = "cancelling"
        /\ turn[t].first_chunk_received
        /\ ~turn[t].handled

\* C14: a caller is past connect(), at the send of chat.send or reading
\* its answer, only while the client is connected.
C14_SendsOnlyWhenConnected ==
    \A c \in Callers : gw_pc[c] \in {"send", "recv"} => connected

\* The run id acknowledged for the request by the frames before the n-th:
\* that of the response with ok read last, "None" when there is none.
Acknowledged(frames, n) ==
    LET acks == {k \in 1..(n - 1) : IsResponse(frames[k]) /\ frames[k].ok}
    IN  IF acks = {} THEN "None"
        ELSE frames[CHOOSE k \in acks : \A j \in acks : j <= k].runId

\* The n-th frame is an event of the run acknowledged before it.
OfRun(frames, n) ==
    /\ frames[n].type = "event"
    /\ Acknowledged(frames, n) # "None"
    /\ frames[n].runId = Acknowledged(frames, n)

\* The n-th frame is an assistant delta of the run.
IsRunDelta(frames, n) ==
    /\ OfRun(frames, n)
    /\ frames[n].event = "agent"
    /\ frames[n].stream = "assistant"
    /\ frames[n].has_delta

\* The deltas of the run among frames m..n, in arrival order.
RECURSIVE RunDeltas(_, _, _)
RunDeltas(frames, m, n) ==
    IF n < m THEN <<>>
    ELSE RunDeltas(frames, m, n - 1)
         \o (IF IsRunDelta(frames, n) THEN <<frames[n].delta>> ELSE <<>>)

\* The frame read last is a chat event of the run in one of these states.
LastIsChat(frames, states) ==
    /\ frames # <<>>
    /\ OfRun(frames, Len(frames))
    /\ frames[Len(frames)].event = "chat"
    /\ frames[Len(frames)].state \in states

\* C15: what stream_message has yielded is, in arrival order, the deltas
\* of the assistant events of the acknowledged run; it has returned exactly
\* when the frame read last is the run's chat event "final", it has raised
\* "Chat failed" exactly when that is the run's chat event "aborted" or
\* "error" (events of another run and answers to another request do neither
\* and yield nothing); once it has ended nothing is yielded or read.
C15_YieldsRunDeltas ==
    /\ [](reader.yielded
            = RunDeltas(reader.received, 1, Len(reader.received)))
    /\ [](reader.pc = "returned"
            <=> LastIsChat(reader.received, {"final"}))
    /\ []((reader.pc = "raised" /\ reader.error = "Chat failed")
            <=> LastIsChat(reader.received, {"aborted", "error"}))
    /\ [][reader.pc # "reading" => UNCHANGED reader]_vars

\* C15: the call has returned at "final" after two deltas of its run,
\* yielded in the order of their arrival.
C15_TwoDeltasYielded ==
    /\ reader.pc = "returned"
    /\ reader.yielded = <<DeltaYouHave, DeltaMail>>
    /\ reader.received[Len(reader.received)].state = "final"

\* The n-th frame is the lifecycle end of the run.
IsRunLifecycleEnd(frames, n) ==
    /\ OfRun(frames, n)
    /\ frames[n].event = "agent"
    /\ frames[n].stream = "lifecycle"
    /\ frames[n].phase = "end"

\* C16: the step that reads the lifecycle end of the run leaves the call
\* reading; every delta of the run read after it is yielded; and after it the
\* call ends only at a chat event of the run (final, aborted, error) or by
\* the timeout of a read.
C16_LifecycleEndKeepsReading ==
    /\ [][(/\ Len(reader'.received) = Len(reader.received) + 1
            /\ IsRunLifecycleEnd(reader'.received, Len(reader'.received)))
           => /\ reader'.pc = "reading"
              /\ reader'.yielded = reader.yielded
              /\ reader'.run_id = reader.run_id]_vars
    /\ [](\A k \in 1..Len(reader.received) :
            IsRunLifecycleEnd(reader.received, k)
            => EndsWith(reader.yielded,
                        RunDeltas(reader.received, k + 1,
                                  Len(reader.received))))
    /\ [][(/\ reader.pc = "reading" /\ reader'.pc # "reading"
            /\ \E k \in 1..Len(reader.received) :
                   IsRunLifecycleEnd(reader.received, k))
           => \/ LastIsChat(reader'.received, {"final", "aborted", "error"})
              \/ reader'.error = "Gateway timeout"]_vars

\* C16: the call returned at the chat event "final", having yielded a
\* delta that came after the lifecycle end of its run.
C16_DeltaAfterLifecycleEnd ==
    /\ reader.pc = "returned"
    /\ \E k \in 1..(Len(reader.received) - 1) :
           /\ IsRunLifecycleEnd(reader.received, k)
           /\ IsRunDelta(reader.received, k + 1)
           /\ reader.yielded # <<>>

\* C17: a call of stream_message ends.
C17_CallEnds == <>(reader.pc # "reading")

\* C18: an invocation that calls stream_message while the socket of self.ws
\* is closed or absent starts with connect().
C18_ReconnectsAfterFailure ==
    [][\A t \in Turns :
        (turn[t].pc = "post_user" /\ turn'[t].pc = "stream" /\ ws # "open")
        => gw_pc'[t] = "ws_connect"]_vars

\* C19: at most one socket opened by the client is open.
C19_OneOpenTransport == transports <= 1

\* The terminal marks, and what is swallowed after one.
Marks == {".", "!", "?", "\n"}

Blanks == {" ", "\n"}

\* text is blank.
IsBlank(text) == \A i \in 1..Len(text) : text[i] \in Blanks

\* text is a prefix of a buffer up to and including its first terminal
\* mark plus the spaces and newlines that follow it in the buffer, of which
\* rest is the remainder.
IsSentence(text, rest) ==
    /\ \E i \in 1..Len(text) :
           /\ text[i] \in Marks
           /\ \A j \in 1..(i - 1) : text[j] \notin Marks
           /\ \A j \in (i + 1)..Len(text) : text[j] \in Blanks
    /\ rest = <<>> \/ rest[1] \notin Blanks

\* The step of the chunking loop took this fragment.
Fed == SubSeq(chunker'.full_response, Len(chunker.full_response) + 1,
              Len(chunker'.full_response))

\* What the step queued.
Queued == SubSeq(chunker'.chunks, Len(chunker.chunks) + 1, Len(chunker'.chunks))

\* C20: a step that appends a fragment to a buffer (no longer than 150)
\* splits the buffer, when it holds a terminal mark, into the prefix up to
\* the first mark with the spaces and newlines after it, queued as one chunk
\* unless it is blank, and the remainder, which stays buffered; without a
\* mark it queues nothing and keeps the buffer.  At the end of the stream a
\* remainder that is not blank is queued as the last chunk.  The fragment
\* "Hello there. How are you?" alone gives "Hello there. " and then
\* "How are you?".
C20_SentenceRule ==
    /\ [][chunker'.fragments = chunker.fragments + 1 =>
            LET buffer == chunker.text_buffer \o Fed
                rest == chunker'.text_buffer
                cut == SubSeq(buffer, 1, Len(buffer) - Len(rest))
            IN  /\ buffer = cut \o rest
                /\ IF \E i \in 1..Len(buffer) : buffer[i] \in Marks
                   THEN /\ IsSentence(cut, rest)
                        /\ Queued = (IF IsBlank(cut) THEN <<>> ELSE <<cut>>)
                   ELSE cut = <<>> /\ Queued = <<>>]_vars
    /\ [][(chunker.pc = "stream" /\ chunker'.pc = "ended") =>
            /\ chunker'.text_buffer = chunker.text_buffer
            /\ Queued = (IF IsBlank(chunker.text_buffer) THEN <<>>
                         ELSE <<chunker.text_buffer>>)]_vars
    /\ [](chunker.full_response = FragmentHello =>
            /\ (chunker.pc = "stream" /\ chunker.fragments = 1) =>
                  /\ chunker.chunks = <<SubSeq(FragmentHello, 1, 13)>>
                  /\ chunker.text_buffer = SubSeq(FragmentHello, 14, 25)
            /\ chunker.pc = "ended" =>
                  chunker.chunks = <<SubSeq(FragmentHello, 1, 13),
                                     SubSeq(FragmentHello, 14, 25)>>)

\* C20: the reply "Hello there. How are you?" came as one fragment and the
\* stream has ended: two chunks are queued, "Hello there. " first.
C20_HelloInTwoChunks ==
    /\ chunker.pc = "ended"
    /\ chunker.fragments = 1
    /\ chunker.full_response = FragmentHello
    /\ Len(chunker.chunks) = 2
    /\ chunker.chunks[1] =
         <<"H", "e", "l", "l", "o", " ", "t", "h", "e", "r", "e", ".", " ">>
    /\ chunker.chunks[2] =
         <<"H", "o", "w", " ", "a", "r", "e", " ", "y", "o", "u", "?">>

\* The offsets up to and including limit at which the buffer holds a space.
SpacesUpTo(buffer, limit) ==
    {k \in 0..limit : k < Len(buffer) /\ buffer[k + 1] = " "}

\* The largest of a set of offsets that is not empty.
Last(offsets) == CHOOSE k \in offsets : \A j \in offsets : j <= k

\* A step that appends a fragment to a buffer without terminal mark cuts
\* it, when it is longer than 150 and holds a space at an offset past 50
\* and up to limit, after the last such space, and queues the
\* prefix; else it cuts nothing.
LengthRule(limit) ==
    chunker'.fragments = chunker.fragments + 1 =>
        LET buffer == chunker.text_buffer \o Fed
            rest == chunker'.text_buffer
            cut == SubSeq(buffer, 1, Len(buffer) - Len(rest))
            spaces == SpacesUpTo(buffer, limit)
        IN  (\A i \in 1..Len(buffer) : buffer[i] \notin Marks) =>
                /\ buffer = cut \o rest
                /\ IF Len(buffer) > 150 /\ spaces # {} /\ Last(spaces) > 50
                   THEN /\ Len(cut) = Last(spaces) + 1
                        /\ Queued = (IF IsBlank(cut) THEN <<>> ELSE <<cut>>)
                   ELSE cut = <<>> /\ Queued = <<>>

\* The end of the stream queues what is left in the buffer unless blank.
FlushRule ==
    (chunker.pc = "stream" /\ chunker'.pc = "ended") =>
        /\ chunker'.text_buffer = chunker.text_buffer
        /\ Queued = (IF IsBlank(chunker.text_buffer) THEN <<>>
                     ELSE <<chunker.text_buffer>>)

\* C21 as stated: a buffer of more than 150 characters without terminal
\* mark is cut after the last space at or before offset 150, provided that
\* space lies past offset 50, and is not cut otherwise; the remainder is
\* queued at the end of the stream.
C21_LengthRuleUpTo150 == [][LengthRule(150) /\ FlushRule]_vars

\* C21 amended: the same with the last space before offset 150, that is,
\* among the first 150 characters.
C21_LengthRuleBefore150 == [][LengthRule(149) /\ FlushRule]_vars

\* C21: a fragment of 200 characters with spaces at offsets 51, 149 and
\* 150 came alone and the stream has ended: the first chunk is the first
\* 150 characters, the second the other 50.
C21_LongFragmentCut ==
    /\ chunker.pc = "ended"
    /\ chunker.fragments = 1
    /\ chunker.full_response = LongText(200, {51, 149, 150})
    /\ Len(chunker.chunks) = 2
    /\ Len(chunker.chunks[1]) = 150
    /\ Len(chunker.chunks[2]) = 50

\* C22: a text and the same text followed by "!" get the same verdict of
\* is_farewell.
C22_FarewellIgnoresBang ==
    [][heard'.message = heard.message \o <<"!">>
       => heard'.farewell = heard.farewell]_vars

\* A step in which the stream of turn t finishes with a chunk emitted.
Completes(t) ==
    /\ turn[t].pc # "post_assistant"
    /\ turn'[t].pc = "post_assistant"

\* C23: the step in which a turn's stream finishes with at least one chunk
\* emitted sets last_bot_speech_end to the time of the step plus one tick per
\* character of the full response (1/15 s each), which is not before that
\* time, appends the response to recent_bot_responses and clears both flags;
\* no other step sets last_bot_speech_end.
C23_CooldownSetOnCompletion ==
    [][/\ \A t \in Turns : Completes(t) =>
              /\ turn'[t].chunks_sent > 0
              /\ now' = now
              /\ last_bot_speech_end' = now + Len(turn'[t].full_response)
              /\ last_bot_speech_end' >= now
              /\ recent_bot_responses' # <<>>
              /\ recent_bot_responses'[Len(recent_bot_responses')]
                     = turn'[t].full_response
              /\ Len(recent_bot_responses') >= Len(recent_bot_responses)
              /\ ~bot_is_speaking'
              /\ ~processing_in_progress'
       /\ last_bot_speech_end' # last_bot_speech_end
              => \E t \in Turns : Completes(t)]_vars

\* C23 witness: a stream has finished with a chunk emitted; the response is
\* recorded, the speech is estimated to end later than now and both flags
\* are clear.
C23_CompletedWithCooldown ==
    \E t \in Turns :
        /\ turn[t].pc = "post_assistant"
        /\ turn[t].chunks_sent > 0
        /\ recent_bot_responses = <<turn[t].full_response>>
        /\ last_bot_speech_end = now + Len(turn[t].full_response)
        /\ last_bot_speech_end > now
        /\ ~bot_is_speaking
        /\ ~processing_in_progress

\* The step queued the acknowledgment phrase of invocation t.
AcknowledgmentOf(t) == last'.turn = t /\ last'.frame = "acknowledgment"

PassesEarlierGates(u) ==
    /\ u # last_processed_message
    /\ ~processing_in_progress
    /\ ~(bot_is_speaking /\ is_echo(u, recent_bot_responses, ECHO_SPEAKING_TENTHS))

\* C25: an utterance that got past the earlier checks is dropped at the
\* cooldown check exactly when less than COOLDOWN seconds have passed since
\* last_bot_speech_end; that value is 0 until a response is recorded, and
\* then no utterance is dropped there; the passing of time changes no flag,
\* buffer or task, and a cooldown drop leaves last_bot_speech_end alone.
C25_CooldownGate ==
    /\ [](\A u \in Utterances :
            /\ GateResult(u) = "cooldown"
                   <=> /\ PassesEarlierGates(u)
                       /\ now - last_bot_speech_end < Seconds(COOLDOWN)
            /\ now >= last_bot_speech_end + Seconds(COOLDOWN)
                   => GateResult(u) # "cooldown"
            /\ recent_bot_responses = <<>>
                   => last_bot_speech_end = 0 /\ GateResult(u) # "cooldown")
    /\ [][/\ now' # now => UNCHANGED <<closureVars, clientVars, callVars, turn>>
          /\ last'.gate = "cooldown"
                 => /\ now - last_bot_speech_end < Seconds(COOLDOWN)
                    /\ UNCHANGED last_bot_speech_end]_vars

\* C25 witness: an utterance was dropped at the cooldown check after a
\* response, and a second later the check lets it past.
C25_DroppedThenPast ==
    /\ last.gate = "cooldown"
    /\ recent_bot_responses # <<>>
    /\ last_bot_speech_end > 0
    /\ now - last_bot_speech_end < Seconds(COOLDOWN)
    /\ now + Seconds(1) - last_bot_speech_end >= Seconds(COOLDOWN)

\* The responses among these that are not blank, in order.
Spoken(responses) == SelectSeq(responses, LAMBDA r : Strip(r) # <<>>)

\* The last n of these responses, or all of them when there are fewer.
LastUpTo(n, responses) ==
    IF Len(responses) <= n THEN responses
    ELSE SubSeq(responses, Len(responses) - n + 1, Len(responses))

\* C26: recent_bot_responses never holds more than MAX_RECENT_RESPONSES
\* entries and equals the last (up to) that many full responses of the
\* streams that completed with a chunk queued, in completion order: a
\* completion with nothing queued appends nothing, and the fourth entry
\* evicts the oldest.
C26_LastThreeResponses ==
    /\ Len(recorder.recent_bot_responses) <= MAX_RECENT_RESPONSES
    /\ recorder.recent_bot_responses
           = LastUpTo(MAX_RECENT_RESPONSES, Spoken(recorder.completed))

\* C26 witness: four streams completed with text and one without; the first
\* response was evicted.
C26_OldestEvicted ==
    /\ recorder.completed = <<<<"a">>, <<"b">>, <<>>, <<"c">>, <<"d">>>>
    /\ recorder.recent_bot_responses = <<<<"b">>, <<"c">>, <<"d">>>>

\* No phrase of this history equals one of the n spoken before it.
FreshAmong(n, history) ==
    \A i \in 1..Len(history) : \A j \in 1..(i - 1) :
        i - j <= n => history[i] # history[j]

\* C27: recent_immediate never holds more than MAX_RECENT_IMMEDIATE phrases
\* and recent_fillers never more than MAX_RECENT_FILLERS; each list holds
\* the phrases of its kind spoken last; a phrase is chosen among those that
\* are not in its list, so that it differs from the 3 acknowledgments (4
\* fillers) spoken before it; and a choice of one kind leaves the list of
\* the other kind alone.
C27_PhraseRotation ==
    /\ [](/\ Len(rotation.recent_immediate) <= MAX_RECENT_IMMEDIATE
          /\ Len(rotation.recent_fillers) <= MAX_RECENT_FILLERS
          /\ rotation.recent_immediate
                 = LastUpTo(MAX_RECENT_IMMEDIATE, rotation.acknowledgments)
          /\ rotation.recent_fillers
                 = LastUpTo(MAX_RECENT_FILLERS, rotation.fillers)
          /\ FreshAmong(MAX_RECENT_IMMEDIATE, rotation.acknowledgments)
          /\ FreshAmong(MAX_RECENT_FILLERS, rotation.fillers))
    /\ [][/\ rotation'.acknowledgments # rotation.acknowledgments
                 => /\ rotation'.recent_fillers = rotation.recent_fillers
                    /\ \A i \in 1..Len(rotation.recent_immediate) :
                           rotation.recent_immediate[i]
                               # rotation'.acknowledgments[Len(rotation'.acknowledgments)]
          /\ rotation'.fillers # rotation.fillers
                 => /\ rotation'.recent_immediate = rotation.recent_immediate
                    /\ \A i \in 1..Len(rotation.recent_fillers) :
                           rotation.recent_fillers[i]
                               # rotation'.fillers[Len(rotation'.fillers)]]_vars

\* C27 witness: the fourth acknowledgment differs from the first and pushed
\* it out of the list, with a filler spoken in between.
C27_FourthAcknowledgment ==
    /\ Len(rotation.acknowledgments) = 4
    /\ rotation.acknowledgments[4] # rotation.acknowledgments[1]
    /\ Len(rotation.recent_immediate) = MAX_RECENT_IMMEDIATE
    /\ rotation.recent_immediate[1] = rotation.acknowledgments[2]
    /\ Len(rotation.fillers) = 1

\* C28: bot_is_speaking is set only while processing_in_progress is set, so
\* that no utterance gets as far as the echo-while-speaking check while
\* the bot is flagged speaking.
C28_SpeakingImpliesProcessing ==
    bot_is_speaking => processing_in_progress

\* The step hands the utterance of invocation t to the local LLM.
ForwardOf(t) == last'.turn = t /\ last'.frame = "forward"

\* C29 as stated: an invocation that has queued a chunk of the gateway's
\* reply does not hand its utterance to the local LLM.
C29_ChunksOrForward ==
    [][\A t \in Turns : ForwardOf(t) => turn[t].chunks_sent = 0]_vars

\* C29: an invocation whose stream runs to its end (the "final" event)
\* either has queued a chunk and does not hand the utterance over, then or
\* later, or has queued none and hands it over; an invocation whose stream
\* or connection raises hands the utterance over, whatever it has queued.
C29_ChunksOrForwardAtEnd ==
    [][\A t \in Turns :
          /\ ForwardOf(t) /\ ~StreamFails(t) => turn[t].chunks_sent = 0
          /\ StreamFails(t) \/ ConnectFails(t) => ForwardOf(t)
          /\ ForwardOf(t) => turn[t].pc = "stream"
          /\ Completes(t) => turn'[t].chunks_sent > 0 /\ ~ForwardOf(t)
          /\ StreamFinal(t) => Completes(t) \/ ForwardOf(t)]_vars

\* C29 witness: a stream ran to its end after a sentence was queued, and
\* the invocation waits in post_transcript with no handover made.
C29_SentenceSpokenAtEnd ==
    \E t \in Turns :
        /\ turn[t].pc = "post_assistant"
        /\ turn[t].chunks_sent = 1
        /\ turn[t].full_response = DeltaYouHave \o <<".">>
        /\ last = Quiet

\* text holds nothing but whitespace.
OnlyWhitespace(text) == \A i \in 1..Len(text) : text[i] \in Whitespace

\* text is these chunks in this order, with nothing but whitespace before,
\* between and after them.
RECURSIVE Conserves(_, _)
Conserves(chunks, text) ==
    IF chunks = <<>> THEN OnlyWhitespace(text)
    ELSE \E k \in 0..(Len(text) - Len(chunks[1])) :
            /\ OnlyWhitespace(SubSeq(text, 1, k))
            /\ SubSeq(text, k + 1, k + Len(chunks[1])) = chunks[1]
            /\ Conserves(Tail(chunks),
                         SubSeq(text, k + Len(chunks[1]) + 1, Len(text)))

\* C30: every chunk queued holds more than whitespace; while the stream
\* runs the fragments received so far are the chunks queued, in order, with
\* whitespace-only segments between them removed, followed by the buffer,
\* and no more chunks are queued than fragments were received; once the
\* stream has ended the whole response is the chunks queued with
\* whitespace-only segments removed; an iteration queues at most one chunk.
C30_ChunkConservation ==
    /\ [](/\ \A i \in 1..Len(chunker.chunks) :
                 ~OnlyWhitespace(chunker.chunks[i])
          /\ chunker.pc = "stream" =>
                 /\ Len(chunker.chunks) <= chunker.fragments
                 /\ EndsWith(chunker.full_response, chunker.text_buffer)
                 /\ Conserves(chunker.chunks,
                        SubSeq(chunker.full_response, 1,
                               Len(chunker.full_response)
                                   - Len(chunker.text_buffer)))
          /\ chunker.pc = "ended" =>
                 Conserves(chunker.chunks, chunker.full_response))
    /\ [][chunker'.fragments = chunker.fragments + 1
             => Len(chunker'.chunks) <= Len(chunker.chunks) + 1]_vars

\* C30 witness: "a." and then a newline, a space and "a" were received and
\* the stream has ended: "a." and "a" are queued, the whitespace between
\* them is dropped.
C30_WhitespaceDropped ==
    /\ chunker.pc = "ended"
    /\ chunker.full_response = <<"a", ".", "\n", " ", "a">>
    /\ chunker.chunks = <<<<"a", ".">>, <<"a">>>>

\* C31: an invocation that has taken the processing guard gives it back:
\* whenever processing_in_progress or bot_is_speaking is set, both are clear
\* again later.
C31_GuardGivenBack ==
    (processing_in_progress \/ bot_is_speaking)
        ~> (~processing_in_progress /\ ~bot_is_speaking)

\* The step queued EndFrame for invocation t.
EndCallOf(t) == last'.turn = t /\ last'.frame = "EndFrame"

\* C32: EndFrame is queued only by an invocation whose utterance is a
\* farewell and whose stream ended with at least one chunk queued; the sleep
\* before it is entered only from the end of such a stream; an invocation
\* that hands its utterance to the local LLM (the call failed or the response
\* was empty) has queued no EndFrame and queues none; and a step in which the
\* gate drops an utterance queues nothing and moves no invocation.
C32_EndCallOnlyAfterSpokenFarewell ==
    [][/\ last'.frame = "EndFrame" => last'.turn \in Turns
       /\ \A t \in Turns :
            /\ EndCallOf(t) =>
                  /\ is_farewell(turn[t].user_message)
                  /\ turn[t].chunks_sent > 0
                  /\ turn[t].pc = "farewell_sleep"
                  /\ ~ForwardOf(t)
            /\ (turn'[t].pc = "farewell_sleep" /\ turn[t].pc # "farewell_sleep")
                  => /\ turn[t].pc = "post_assistant"
                     /\ turn[t].chunks_sent > 0
                     /\ is_farewell(turn[t].user_message)
            /\ ForwardOf(t) =>
                  /\ ~turn[t].handled
                  /\ turn[t].pc \notin {"post_assistant", "farewell_sleep"}
                  /\ turn'[t].pc \notin {"post_assistant", "farewell_sleep"}
       /\ last'.gate \notin {"none", "admitted"}
            => last'.frame = "none" /\ UNCHANGED turn]_vars

\* C32 witness: two utterances were admitted, one was handed to the local
\* LLM and the farewell was answered: EndFrame is queued with one response
\* recorded.
C32_EndCallAfterFallback ==
    /\ last.frame = "EndFrame"
    /\ last_processed_message = UttGoodbye
    /\ Admitted = MaxRequests
    /\ Len(recent_bot_responses) = 1
====
